---------------------------- MODULE Spec2Model ----------------------------
(***************************************************************************)
(* prisma-reorder: column-order reconciliation (ColumnReorderGenerator)    *)
(* and migration-SQL rewriting (MigrationFixer).                           *)
(*                                                                         *)
(* SQL text is a sequence of tokens: every whitespace character and every  *)
(* punctuation character is one token, every maximal run of word           *)
(* characters (\w+) is one token.  The regular expressions of the source   *)
(* are matched token by token.                                             *)
(***************************************************************************)
EXTENDS Integers, Sequences, FiniteSets, TLC

VARIABLES
    \* ---- ColumnReorderGenerator run ----
    provider,        \* analysis.provider of the schema
    modelFields,     \* analysis.models[0].fields: <<[name, column, isRelation]>>
    tablePresent,    \* does the table exist in the database
    liveTable,       \* the live table: <<[name, type]>> in ordinal order
    tableAtStart,    \* the live column names when the run started
    reorderOutcome,  \* what generateReorderSQL returned or threw
    executed,        \* how many emitted statements have been executed
    reorderRun,      \* the generateReorderSQL call in progress, statement by statement
    connectorCalls,  \* the calls made on the DatabaseConnector, in order
    \* ---- MigrationFixer run ----
    fixerVersion,    \* which version of the MigrationFixer class is built
    migrationPlan,   \* the statements and clauses the migration file was written from
    migrationSql,    \* text of the latest migration file as it was written
    migrationFile,   \* text of the latest migration file on disk
    fixOutcome,      \* what fixMigrationSql returned for migrationSql
    refixOutcome,    \* what fixMigrationSql returned for its own output
    fixerTable,      \* the table after the migration has been executed
    fixerPc,         \* position of the fixer scenario
    fileAccess,      \* the file system calls of the fixer, in order
    fixRun,          \* the fixMigrationSql call in progress, await by await
    \* ---- DatabaseConnector objects and overlapping calls ----
    connectors,      \* the DatabaseConnector objects created, in order
    generator        \* this.dbConnector of the generator and its calls in progress

vars == <<provider, modelFields, tablePresent, liveTable, tableAtStart,
          reorderOutcome, executed, reorderRun, connectorCalls, fixerVersion,
          migrationPlan, migrationSql, migrationFile, fixOutcome, refixOutcome,
          fixerTable, fixerPc, fileAccess, fixRun, connectors, generator>>

reorderVars == <<provider, modelFields, tablePresent, liveTable, tableAtStart,
                 reorderOutcome, executed, reorderRun, connectorCalls, connectors,
                 generator>>

fixerVars == <<fixerVersion, migrationPlan, migrationSql, migrationFile, fixOutcome,
               refixOutcome, fixerTable, fixerPc, fileAccess, fixRun>>

\* ------------------------------------------------------------------------
\* Bounds
\* ------------------------------------------------------------------------
MaxFields == 4

\* clauses in one migration file
MaxClauses == 2

\* ------------------------------------------------------------------------
\* Generic helpers
\* ------------------------------------------------------------------------
Null == "null"

\* the tokens that are no word: backtick, newline
BT == "<backtick>"

NL == "<newline>"

Range(s) == {s[i] : i \in DOMAIN s}

\* Body(v) with v standing for the value of e
Bind(e, Body(_)) == CHOOSE r \in {Body(v) : v \in {e}} : TRUE

\* Array.prototype.indexOf, 0-based, -1 when absent
IndexOf(s, x) ==
    IF \E i \in DOMAIN s : s[i] = x
    THEN (CHOOSE i \in DOMAIN s : s[i] = x /\ \A j \in 1..(i - 1) : s[j] # x) - 1
    ELSE -1

\* all sequences without repetition over S of length at most n
RECURSIVE InjSeqs(_, _)
InjSeqs(S, n) ==
    IF n = 0 THEN {<<>>}
    ELSE LET shorter == InjSeqs(S, n - 1)
             longest == {t \in shorter : Len(t) = n - 1}
         IN shorter \cup UNION {{Append(s, x) : x \in S \ Range(s)} : s \in longest}


\* ------------------------------------------------------------------------
\* Schema (SchemaReader) as the generator and the fixer see it
\* ------------------------------------------------------------------------
FieldNames == <<"id", "email", "name", "createdAt", "updatedAt", "bio", "avatar">>

SUPPORTED_PROVIDERS == {"mysql", "mariadb"}

Providers == {"mysql", "mariadb", "postgresql"}

ModelName == "User"

\* @map on a field: the physical column of field f when the schema renames
MappedColumn(f, mapped) == IF mapped /\ f = "email" THEN "email_address" ELSE f

\* the model's fields in declaration order: the first k scalar fields, with
\* the relation field posts declared after the first of them
ModelOf(k, mapped) ==
    LET scalar(i) == [name |-> FieldNames[i],
                      column |-> MappedColumn(FieldNames[i], mapped),
                      isRelation |-> FALSE]
        rel == [name |-> "posts", column |-> "posts", isRelation |-> TRUE]
    IN <<scalar(1), rel>> \o [i \in 1..(k - 1) |-> scalar(i + 1)]

\* SchemaReader.getModelFieldOrder: names of the non-relation fields
getModelFieldOrder(fields) ==
    LET kept == SelectSeq(fields, LAMBDA f : ~f.isRelation)
    IN [i \in DOMAIN kept |-> kept[i].name]

\* SchemaReader.getFieldColumnMapping: fieldName -> columnName, every field
getFieldColumnMapping(fields) ==
    [n \in {fields[i].name : i \in DOMAIN fields} |->
        (CHOOSE i \in DOMAIN fields : fields[i].name = n) ]

\* the lookup that takes every field name for its column name
FieldColumnUnmapped(fields, fieldName) == fieldName

FieldColumn(fields, fieldName) ==
    LET m == getFieldColumnMapping(fields)
    IN IF fieldName \in DOMAIN m THEN fields[m[fieldName]].column ELSE fieldName

\* SchemaReader.getTableName: @@map when the schema renames, else the model name
getTableName(fields) ==
    IF \E i \in DOMAIN fields : fields[i].name # fields[i].column
    THEN "users" ELSE ModelName

\* DatabaseConnector: the complete type definition of a live column
TypeOf(c) == IF c = "id" THEN "int NOT NULL AUTO_INCREMENT" ELSE "varchar(191) NULL"

\* ------------------------------------------------------------------------
\* ColumnReorderGenerator
\* ------------------------------------------------------------------------
\* generateMySQLReorderSQL reading fieldOrder with a 1-based index: AFTER names
\* the moved column itself
generateMySQLReorderSQLAfterSelf(tableName, columnName, columnMetadata, fieldOrder, targetPosition) ==
    LET head == <<"ALTER", " ", "TABLE", " ", BT, tableName, BT, " ",
                  "MODIFY", " ", "COLUMN", " ", BT, columnName, BT, " ",
                  columnMetadata.type, " ">>
    IN IF targetPosition = 0
       THEN head \o <<"FIRST", ";">>
       ELSE head \o <<"AFTER", " ", BT, fieldOrder[targetPosition + 1], BT, ";">>

\* generateMySQLReorderSQL: one ALTER TABLE ... MODIFY COLUMN statement
generateMySQLReorderSQL(tableName, columnName, columnMetadata, fieldOrder, targetPosition) ==
    LET head == <<"ALTER", " ", "TABLE", " ", BT, tableName, BT, " ",
                  "MODIFY", " ", "COLUMN", " ", BT, columnName, BT, " ",
                  columnMetadata.type, " ">>
    IN IF targetPosition = 0
       THEN head \o <<"FIRST", ";">>
       ELSE head \o <<"AFTER", " ", BT, fieldOrder[targetPosition], BT, ";">>

\* generateColumnReorderSQL: the provider switch (<<>> is the source's null)
generateColumnReorderSQL(tableName, columnName, columnMetadata, fieldOrder, targetPosition, prov) ==
    IF prov \in {"mysql", "mariadb"}
    THEN generateMySQLReorderSQL(tableName, columnName, columnMetadata, fieldOrder, targetPosition)
    ELSE <<>>

\* the comparison loop comparing the 0-based live index with a 1-based target
RECURSIVE CompareFromOneBased(_, _, _, _, _, _, _)
CompareFromOneBased(i, expectedColumnOrder, currentDbOrder, columns, fields, tableName, prov) ==
    IF i >= Len(expectedColumnOrder) THEN [changes |-> <<>>, sql |-> <<>>]
    ELSE
      LET columnName == expectedColumnOrder[i + 1]
          currentPosition == IndexOf(currentDbOrder, columnName)
          rest == CompareFromOneBased(i + 1, expectedColumnOrder, currentDbOrder,
                                      columns, fields, tableName, prov)
          columnMetadata == columns[currentPosition + 1]
          sql == generateColumnReorderSQL(tableName, columnName, columnMetadata,
                                          expectedColumnOrder, i, prov)
      IN IF currentPosition # i + 1
         THEN [changes |-> <<[column |-> columnName, fromPosition |-> currentPosition,
                              toPosition |-> i, operation |-> "move"]>> \o rest.changes,
               sql |-> (IF sql # <<>> THEN <<sql>> ELSE <<>>) \o rest.sql]
         ELSE rest

\* the comparison loop of generateModelReorderSQL from index i (0-based) on
RECURSIVE CompareFrom(_, _, _, _, _, _, _)
CompareFrom(i, expectedColumnOrder, currentDbOrder, columns, fields, tableName, prov) ==
    IF i >= Len(expectedColumnOrder) THEN [changes |-> <<>>, sql |-> <<>>]
    ELSE
      LET columnName == expectedColumnOrder[i + 1]
          currentPosition == IndexOf(currentDbOrder, columnName)
          rest == CompareFrom(i + 1, expectedColumnOrder, currentDbOrder, columns,
                              fields, tableName, prov)
          schemaFieldOrder == getModelFieldOrder(fields)
          found == SelectSeq(schemaFieldOrder,
                             LAMBDA f : FieldColumn(fields, f) = columnName)
          fieldName == IF found # <<>> THEN found[1] ELSE columnName
          columnMetadata == columns[currentPosition + 1]
          sql == generateColumnReorderSQL(tableName, columnName, columnMetadata,
                                          expectedColumnOrder, i, prov)
      IN IF currentPosition # i
         THEN [changes |-> <<[column |-> fieldName, fromPosition |-> currentPosition,
                              toPosition |-> i, operation |-> "move"]>> \o rest.changes,
               sql |-> (IF sql # <<>> THEN <<sql>> ELSE <<>>) \o rest.sql]
         ELSE rest

\* generateModelReorderSQL, after the table was found to exist
generateModelReorderSQL(fields, columns, prov) ==
    LET schemaFieldOrder == getModelFieldOrder(fields)
        tableName == getTableName(fields)
        currentDbOrder == [i \in DOMAIN columns |-> columns[i].name]
        mappedOrder == [i \in DOMAIN schemaFieldOrder |->
                            FieldColumn(fields, schemaFieldOrder[i])]
        expectedColumnOrder ==
            SelectSeq(mappedOrder, LAMBDA c : c \in Range(currentDbOrder))
        r == CompareFrom(0, expectedColumnOrder, currentDbOrder, columns, fields,
                         tableName, prov)
    IN [model |-> ModelName, changes |-> r.changes, sql |-> r.sql]

NoOutcome == [kind |-> "none", error |-> Null, results |-> <<>>]

\* no error thrown; an Error is its kind and the parts of its message
NoError == [type |-> "none", message |-> <<>>]

\* a generateReorderSQL call that has not been made
NoRun == [pc |-> "idle", explicit |-> FALSE, modelNames |-> <<>>, failure |-> "none",
          connection |-> FALSE, targetModels |-> <<>>, next |-> 0, results |-> <<>>,
          thrown |-> NoError]

\* one call on the DatabaseConnector
Call(method, table) == [method |-> method, table |-> table]

\* the calls one generateReorderSQL run for the one model makes on its
\* connector when the database answers every query
ConnectorCallsOfRun(prov, fields, present) ==
    IF prov \notin SUPPORTED_PROVIDERS THEN <<>>
    ELSE <<Call("new DatabaseConnector", Null), Call("connect", Null),
           Call("tableExists", getTableName(fields))>>
         \o (IF present THEN <<Call("getTableMetadata", getTableName(fields))>> ELSE <<>>)
         \o <<Call("disconnect", Null)>>

\* generateReorderSQL for a schema with the one model: what it returns or throws
generateReorderSQL(prov, fields, present, columns) ==
    IF prov \notin SUPPORTED_PROVIDERS
    THEN [kind |-> "error", error |-> "provider not supported", results |-> <<>>]
    ELSE IF ~present
    THEN [kind |-> "error", error |-> "table not found", results |-> <<>>]
    ELSE LET result == generateModelReorderSQL(fields, columns, prov)
         IN [kind |-> "ok", error |-> Null,
             results |-> IF Len(result.changes) > 0 THEN <<result>> ELSE <<>>]

\* ------------------------------------------------------------------------
\* MySQL: executing ALTER TABLE t MODIFY COLUMN c <def> FIRST | AFTER p
\* ------------------------------------------------------------------------
Without(s, name) == SelectSeq(s, LAMBDA c : c.name # name)

InsertAt(s, k, x) == SubSeq(s, 1, k) \o <<x>> \o SubSeq(s, k + 1, Len(s))

NamesOf(columns) == [i \in DOMAIN columns |-> columns[i].name]

\* the table after the statement; an unknown column or AFTER target is an
\* error that leaves the table as it was
ExecuteModify(columns, stmt) ==
    LET c == stmt[14]
        def == stmt[17]
        first == stmt[19] = "FIRST"
        p == IF first THEN Null ELSE stmt[22]
        others == Without(columns, c)
        col == [name |-> c, type |-> def]
    IN IF c \notin Range(NamesOf(columns)) THEN columns
       ELSE IF first THEN <<col>> \o others
       ELSE IF p = c \/ p \notin Range(NamesOf(columns)) THEN columns
       ELSE InsertAt(others, IndexOf(NamesOf(others), p) + 1, col)

\* ------------------------------------------------------------------------
\* Specification of one reorder run followed by the execution of its SQL
\* ------------------------------------------------------------------------
\* what fixMigrationSql returns or throws
NoFix == [kind |-> "none", sql |-> <<>>, changes |-> <<>>]

NullFix == [kind |-> "null", sql |-> <<>>, changes |-> <<>>]

UnsupportedFix == [kind |-> "error", sql |-> <<>>, changes |-> <<>>]

NoPlan == [table |-> Null, quoted |-> FALSE, layout |-> Null, comment |-> FALSE,
           statements |-> <<>>]

NoTable == [ok |-> TRUE, columns |-> <<>>]

\* no fixMigrationSql call is in progress
NoFixRun == [pc |-> "idle", analysis |-> Null, next |-> 0, fixedSql |-> <<>>,
             changes |-> <<>>, reads |-> <<>>]

\* a generator that has made no call: this.dbConnector is undefined
NoGenerator == [dbConnector |-> 0, calls |-> <<>>]

IdleFixer ==
    /\ fixerVersion = Null
    /\ migrationPlan = NoPlan
    /\ migrationSql = <<>>
    /\ migrationFile = <<>>
    /\ fixOutcome = NoFix
    /\ refixOutcome = NoFix
    /\ fixerTable = NoTable
    /\ fixerPc = "idle"
    /\ fileAccess = <<>>
    /\ fixRun = NoFixRun

LiveTables(k, mapped) ==
    LET physical == {MappedColumn(FieldNames[i], mapped) : i \in 1..k} \cup {"legacy"}
    IN {[i \in DOMAIN s |-> [name |-> s[i], type |-> TypeOf(s[i])]] :
            s \in InjSeqs(physical, k + 1) \ {<<>>}}

InitReorder ==
    /\ provider \in Providers
    /\ tablePresent \in BOOLEAN
    /\ \E k \in 1..MaxFields, mapped \in BOOLEAN :
          /\ modelFields = ModelOf(k, mapped)
          /\ IF tablePresent
             THEN liveTable \in LiveTables(k, mapped)
             ELSE liveTable = <<>>
    /\ tableAtStart = NamesOf(liveTable)
    /\ reorderOutcome = NoOutcome
    /\ executed = 0
    /\ reorderRun = NoRun
    /\ connectorCalls = <<>>
    /\ connectors = <<>>
    /\ generator = NoGenerator
    /\ IdleFixer

\* ColumnReorderGenerator.generateReorderSQL()
GenerateReorderSQL ==
    /\ reorderOutcome = NoOutcome
    /\ reorderOutcome' = generateReorderSQL(provider, modelFields, tablePresent, liveTable)
    /\ connectorCalls' = connectorCalls \o ConnectorCallsOfRun(provider, modelFields, tablePresent)
    /\ UNCHANGED <<connectors, generator, provider, modelFields, tablePresent, liveTable, tableAtStart, executed,
                   reorderRun>>
    /\ UNCHANGED fixerVars

EmittedSql ==
    IF reorderOutcome.kind = "ok" /\ reorderOutcome.results # <<>>
    THEN reorderOutcome.results[1].sql
    ELSE <<>>

EmittedChanges ==
    IF reorderOutcome.kind = "ok" /\ reorderOutcome.results # <<>>
    THEN reorderOutcome.results[1].changes
    ELSE <<>>

\* the database executes the next emitted statement
ExecuteStatement ==
    /\ executed < Len(EmittedSql)
    /\ liveTable' = ExecuteModify(liveTable, EmittedSql[executed + 1])
    /\ executed' = executed + 1
    /\ UNCHANGED <<connectors, generator, provider, modelFields, tablePresent, tableAtStart, reorderOutcome,
                   reorderRun, connectorCalls>>
    /\ UNCHANGED fixerVars

NextReorder == GenerateReorderSQL \/ ExecuteStatement

SpecReorder == InitReorder /\ [][NextReorder]_vars


\* ------------------------------------------------------------------------
\* SQL text: tokens and the string operations of the MigrationFixer
\* ------------------------------------------------------------------------
NonWord == {" ", NL, BT, ",", ";", "(", ")", "'", "--", "."}

IsSpace(c) == c \in {" ", NL}

\* \w+
IsWord(c) == c \notin NonWord

\* the words of the model that differ from their upper-case form in more
\* than one spelling
UpperTable == [User |-> "USER", user |-> "USER", first |-> "FIRST",
               name |-> "NAME", Name |-> "NAME", bio |-> "BIO"]

LowerTable == [User |-> "user", user |-> "user", Other |-> "other", USER |-> "user",
               NAME |-> "name", Name |-> "name", BIO |-> "bio"]

\* String.prototype.toUpperCase / toLowerCase, word by word
Upper(c) == IF c \in DOMAIN UpperTable THEN UpperTable[c] ELSE c

Lower(c) == IF c \in DOMAIN LowerTable THEN LowerTable[c] ELSE c

UpperAll(s) == [i \in DOMAIN s |-> Upper(s[i])]

Spaces(n) == [i \in 1..n |-> " "]

\* the first index from i on that holds no whitespace (Len + 1 at the end)
RECURSIVE SkipSpaces(_, _)
SkipSpaces(s, i) ==
    IF i >= 1 /\ i <= Len(s) /\ IsSpace(s[i]) THEN SkipSpaces(s, i + 1) ELSE i

\* String.prototype.trim
Trim(s) ==
    IF \A i \in DOMAIN s : IsSpace(s[i]) THEN <<>>
    ELSE LET a == SkipSpaces(s, 1)
             b == CHOOSE j \in DOMAIN s :
                      ~IsSpace(s[j]) /\ \A k \in (j + 1)..Len(s) : IsSpace(s[k])
         IN SubSeq(s, a, b)

\* does needle occur in s at index i
OccursAt(s, needle, i) ==
    /\ i >= 1
    /\ i + Len(needle) - 1 <= Len(s)
    /\ \A k \in 1..Len(needle) : s[i + k - 1] = needle[k]

\* String.prototype.indexOf(needle), 1-based, 0 when absent
Min(S) == CHOOSE x \in S : \A y \in S : x <= y

FindSub(s, needle) ==
    LET at == {i \in 1..(Len(s) - Len(needle) + 1) : OccursAt(s, needle, i)}
    IN IF at = {} THEN 0 ELSE Min(at)

\* String.prototype.replace(searchString, replacement): the first occurrence
ReplaceFirst(s, needle, replacement) ==
    Bind(FindSub(s, needle), LAMBDA i :
        IF i = 0 THEN s
        ELSE SubSeq(s, 1, i - 1) \o replacement \o SubSeq(s, i + Len(needle), Len(s)))

\* k1\s+k2 (case-insensitive) at index i: the index after k2, 0 when no match
KeywordPair(s, i, k1, k2) ==
    IF i >= 1 /\ i <= Len(s) /\ Upper(s[i]) = k1
    THEN Bind(SkipSpaces(s, i + 1), LAMBDA j :
             IF j > i + 1 /\ j <= Len(s) /\ Upper(s[j]) = k2 THEN j + 1 ELSE 0)
    ELSE 0

\* `?(\w+)`? at index i: the name and the index after it (next = 0: no match)
Ident(s, i) ==
    LET a == IF i >= 1 /\ i <= Len(s) /\ s[i] = BT THEN i + 1 ELSE i
    IN IF a >= 1 /\ a <= Len(s) /\ IsWord(s[a])
       THEN [name |-> s[a],
             next |-> IF a + 1 <= Len(s) /\ s[a + 1] = BT THEN a + 2 ELSE a + 1]
       ELSE [name |-> Null, next |-> 0]

\* /ADD\s+COLUMN/i.test(s)
HasAddColumn(s) == \E i \in DOMAIN s : KeywordPair(s, i, "ADD", "COLUMN") # 0

\* the match of /\s+(FIRST|AFTER\s+`?\w+`?)\s*$/i in a definition:
\* from = index of the first whitespace matched, kw = index of FIRST or AFTER,
\* last = index of the last token of the positioning clause (found = FALSE:
\* no match)
NoPositioning == [found |-> FALSE, from |-> 0, kw |-> 0, last |-> 0]

SpaceRunStart(s, i) ==
    CHOOSE j \in 1..i : /\ \A k \in j..i : IsSpace(s[k])
                        /\ j = 1 \/ ~IsSpace(s[j - 1])

\* the AFTER alternative, for a definition whose last non-blank token is at e:
\* the name at w, the whitespace before the name ending at b, AFTER at a
AfterMatch(d, e) ==
    Bind(IF d[e] = BT THEN e - 1 ELSE e, LAMBDA w :
    Bind(IF w >= 2 /\ d[w - 1] = BT THEN w - 2 ELSE w - 1, LAMBDA b :
    Bind(IF b >= 1 /\ IsSpace(d[b]) THEN SpaceRunStart(d, b) - 1 ELSE 0, LAMBDA a :
        IF /\ w >= 1 /\ IsWord(d[w])
           /\ b >= 1 /\ IsSpace(d[b])
           /\ a >= 2 /\ Upper(d[a]) = "AFTER" /\ IsSpace(d[a - 1])
        THEN [found |-> TRUE, from |-> SpaceRunStart(d, a - 1), kw |-> a, last |-> e]
        ELSE NoPositioning)))

\* the FIRST alternative
FirstMatch(d, e) ==
    IF e >= 2 /\ Upper(d[e]) = "FIRST" /\ IsSpace(d[e - 1])
    THEN [found |-> TRUE, from |-> SpaceRunStart(d, e - 1), kw |-> e, last |-> e]
    ELSE NoPositioning

\* the leftmost match: the AFTER alternative starts before the FIRST one
PositioningMatch(d) ==
    IF \A i \in DOMAIN d : IsSpace(d[i]) THEN NoPositioning
    ELSE Bind(CHOOSE j \in DOMAIN d :
                  ~IsSpace(d[j]) /\ \A k \in (j + 1)..Len(d) : IsSpace(d[k]),
              LAMBDA e :
                  Bind(AfterMatch(d, e), LAMBDA m :
                      IF m.found THEN m ELSE FirstMatch(d, e)))

\* definition.replace(/\s+(FIRST|AFTER\s+`?\w+`?)\s*$/i, '').trim()
CleanDefinition(definition) ==
    Bind(PositioningMatch(definition), LAMBDA m :
        Trim(IF m.found THEN SubSeq(definition, 1, m.from - 1) ELSE definition))

\* ------------------------------------------------------------------------
\* MigrationFixer: what both versions of the class share
\* ------------------------------------------------------------------------
\* the schema analysis the fixer reads: one model, a relation field declared
\* between name and bio
FixerModels ==
    LET scalar(n) == [name |-> n, column |-> n, isRelation |-> FALSE]
        rel == [name |-> "posts", column |-> "posts", isRelation |-> TRUE]
    IN <<[name |-> ModelName,
          fields |-> <<scalar("id"), scalar("email"), scalar("name"), rel,
                       scalar("bio"), scalar("createdAt")>>]>>

\* getSchemaAnalysis that takes every provider for a supported one
getSchemaAnalysisAllSupported(prov) ==
    [provider |-> prov, isSupported |-> TRUE, models |-> FixerModels]

\* SchemaReader.getSchemaAnalysis
getSchemaAnalysis(prov) ==
    [provider |-> prov, isSupported |-> prov \in SUPPORTED_PROVIDERS,
     models |-> FixerModels]

\* analysis.models.find(m => m.name.toLowerCase() === tableName.toLowerCase()):
\* the index of the model, 0 when there is none
FindModel(analysis, tableName) ==
    LET hit(i) == Lower(analysis.models[i].name) = Lower(tableName)
    IN IF \E i \in DOMAIN analysis.models : hit(i)
       THEN CHOOSE i \in DOMAIN analysis.models :
                hit(i) /\ \A j \in 1..(i - 1) : ~hit(j)
       ELSE 0

\* validateColumn that takes a column the model does not hold for its first
validateColumnAnyColumn(analysis, tableName, columnName) ==
    Bind(FindModel(analysis, tableName), LAMBDA m :
        IF m = 0 THEN [exists |-> FALSE, position |-> -1, afterColumn |-> Null]
        ELSE Bind(getModelFieldOrder(analysis.models[m].fields), LAMBDA fieldOrder :
             Bind(IndexOf(fieldOrder, columnName), LAMBDA position :
                 IF position = -1
                 THEN [exists |-> TRUE, position |-> 0, afterColumn |-> Null]
                 ELSE [exists |-> TRUE, position |-> position,
                       afterColumn |-> IF position > 0 THEN fieldOrder[position]
                                       ELSE Null])))

\* validateColumn: position among the non-relation fields (0-based) and the
\* field before it (Null is the source's undefined)
validateColumn(analysis, tableName, columnName) ==
    Bind(FindModel(analysis, tableName), LAMBDA m :
        IF m = 0 THEN [exists |-> FALSE, position |-> -1, afterColumn |-> Null]
        ELSE Bind(getModelFieldOrder(analysis.models[m].fields), LAMBDA fieldOrder :
             Bind(IndexOf(fieldOrder, columnName), LAMBDA position :
                 IF position = -1
                 THEN [exists |-> FALSE, position |-> -1, afterColumn |-> Null]
                 ELSE [exists |-> TRUE, position |-> position,
                       afterColumn |-> IF position > 0 THEN fieldOrder[position]
                                       ELSE Null])))

\* 'FIRST' or 'AFTER `afterColumn`'
PositionDesc(validation) ==
    IF validation.position = 0 THEN <<"FIRST">>
    ELSE <<"AFTER", " ", BT, validation.afterColumn, BT>>

\* the decision chain of the loop body, given what validateColumn returned:
\* TRUE when the clause is to be rewritten
NeedsFixAt(analysis, tableName, definition, validation) ==
    Bind(FindModel(analysis, tableName), LAMBDA m :
    Bind(PositioningMatch(definition), LAMBDA pm :
        LET totalNonRelationFields ==
                Len(SelectSeq(analysis.models[m].fields, LAMBDA f : ~f.isRelation))
            isLastColumn == validation.position = totalNonRelationFields - 1
            hasPositioning == pm.found
            normalizedCurrent == UpperAll(Trim(SubSeq(definition, pm.kw, pm.last)))
            normalizedExpected == UpperAll(PositionDesc(validation))
        IN /\ validation.exists
           /\ m # 0
           /\ ~(isLastColumn /\ ~hasPositioning)
           /\ ~(hasPositioning /\ normalizedCurrent = normalizedExpected)))

NeedsFix(analysis, tableName, columnName, definition) ==
    Bind(validateColumn(analysis, tableName, columnName), LAMBDA validation :
        NeedsFixAt(analysis, tableName, definition, validation))

\* `Fixed column position for ${tableName}.${columnName} (${positionDesc})`
ChangeEntry(tableName, columnName, positionDesc) ==
    <<"Fixed", " ", "column", " ", "position", " ", "for", " ",
      tableName, ".", columnName, " ", "(">> \o positionDesc \o <<")">>

\* ------------------------------------------------------------------------
\* MigrationFixer, the version that matches ALTER TABLE ... ; by regex
\* ------------------------------------------------------------------------
\* /ALTER\s+TABLE\s+`?(\w+)`?\s+(.*?);/gis tried at index i
NoAlterTable ==
    [ok |-> FALSE, tableName |-> Null, alterContent |-> <<>>, fullMatch |-> <<>>,
     startIndex |-> 0, endIndex |-> 0]

AlterTableAt(s, i) ==
    Bind(KeywordPair(s, i, "ALTER", "TABLE"), LAMBDA k :
    Bind(IF k = 0 THEN 0 ELSE SkipSpaces(s, k), LAMBDA w :
    Bind(IF k # 0 /\ w > k THEN Ident(s, w) ELSE [name |-> Null, next |-> 0], LAMBDA id :
    Bind(IF id.next = 0 THEN 0 ELSE SkipSpaces(s, id.next), LAMBDA c :
    Bind(IF id.next # 0 /\ c > id.next THEN {j \in c..Len(s) : s[j] = ";"} ELSE {},
         LAMBDA semis :
             IF semis = {} THEN NoAlterTable
             ELSE Bind(Min(semis), LAMBDA e :
                      [ok |-> TRUE, tableName |-> id.name,
                       alterContent |-> SubSeq(s, c, e - 1),
                       fullMatch |-> SubSeq(s, i, e),
                       startIndex |-> i, endIndex |-> e + 1]))))))

\* alterContent.split(/,\s*(?=ADD\s+COLUMN)/i), from index `from` on
RECURSIVE SplitBeforeAddColumn(_, _)
SplitBeforeAddColumn(s, from) ==
    Bind({i \in from..Len(s) :
             s[i] = "," /\ KeywordPair(s, SkipSpaces(s, i + 1), "ADD", "COLUMN") # 0},
         LAMBDA seps :
             IF seps = {} THEN <<SubSeq(s, from, Len(s))>>
             ELSE Bind(Min(seps), LAMBDA i :
                      <<SubSeq(s, from, i - 1)>>
                          \o SplitBeforeAddColumn(s, SkipSpaces(s, i + 1))))

\* /ADD\s+COLUMN\s+`?(\w+)`?\s+(.+?)(?=\s*(?:,\s*ADD\s+COLUMN|$))/is tried at i
NoAddColumn == [ok |-> FALSE, columnName |-> Null, definition |-> <<>>]

\* may the lazy (.+?) stop after index e: the lookahead holds there
DefinitionMayEnd(s, e) ==
    Bind(SkipSpaces(s, e + 1), LAMBDA n :
        \/ n = Len(s) + 1
        \/ /\ s[n] = ","
           /\ KeywordPair(s, SkipSpaces(s, n + 1), "ADD", "COLUMN") # 0)

AddColumnAt(s, i) ==
    Bind(KeywordPair(s, i, "ADD", "COLUMN"), LAMBDA k :
    Bind(IF k = 0 THEN 0 ELSE SkipSpaces(s, k), LAMBDA w :
    Bind(IF k # 0 /\ w > k THEN Ident(s, w) ELSE [name |-> Null, next |-> 0], LAMBDA id :
    Bind(IF id.next = 0 THEN 0 ELSE SkipSpaces(s, id.next), LAMBDA d :
        IF id.next # 0 /\ d > id.next /\ d <= Len(s)
        THEN [ok |-> TRUE, columnName |-> id.name,
              definition |-> SubSeq(s, d, Min({x \in d..Len(s) : DefinitionMayEnd(s, x)}))]
        ELSE NoAddColumn))))

\* the first match of the ADD COLUMN pattern in a part
FirstAddColumn(trimmedPart) ==
    Bind({i \in DOMAIN trimmedPart : AddColumnAt(trimmedPart, i).ok}, LAMBDA hits :
        IF hits = {} THEN NoAddColumn ELSE AddColumnAt(trimmedPart, Min(hits)))

\* parseAddColumns: one entry per part that holds an ADD COLUMN clause
parseAddColumns(alterContent) ==
    Bind(SplitBeforeAddColumn(alterContent, 1), LAMBDA parts :
    Bind([p \in DOMAIN parts |-> FirstAddColumn(Trim(parts[p]))], LAMBDA matches :
    Bind(SelectSeq(matches, LAMBDA m : m.ok), LAMBDA kept :
        [p \in DOMAIN kept |->
            [columnName |-> kept[p].columnName,
             definition |-> Trim(kept[p].definition)]])))

\* the exec loop of extractAddColumnInfo from lastIndex `from`
RECURSIVE ExecAlterTable(_, _)
ExecAlterTable(sql, from) ==
    Bind({i \in from..Len(sql) : AlterTableAt(sql, i).ok}, LAMBDA hits :
        IF hits = {} THEN <<>>
        ELSE Bind(AlterTableAt(sql, Min(hits)), LAMBDA m :
             Bind(IF HasAddColumn(m.alterContent)
                  THEN parseAddColumns(m.alterContent) ELSE <<>>, LAMBDA addColumnMatches :
                 [p \in DOMAIN addColumnMatches |->
                     [tableName |-> m.tableName,
                      columnName |-> addColumnMatches[p].columnName,
                      definition |-> addColumnMatches[p].definition,
                      fullMatch |-> m.fullMatch,
                      startIndex |-> m.startIndex,
                      endIndex |-> m.endIndex]]
                 \o ExecAlterTable(sql, m.endIndex))))

extractAddColumnInfo(sql) == ExecAlterTable(sql, 1)

\* the inner loop over the statements of one ALTER TABLE group
RECURSIVE FixGroup(_, _, _, _, _)
FixGroup(analysis, statements, k, modifiedAlterTable, alterTableChanges) ==
    IF k > Len(statements)
    THEN [text |-> modifiedAlterTable, changes |-> alterTableChanges]
    ELSE
      Bind(statements[k], LAMBDA st :
      Bind(validateColumn(analysis, st.tableName, st.columnName), LAMBDA validation :
        LET cleanDefinition == CleanDefinition(st.definition)
            positioningClause ==
                IF validation.position = 0 THEN <<" ", "FIRST">>
                ELSE IF validation.afterColumn # Null
                THEN <<" ", "AFTER", " ", BT, validation.afterColumn, BT>>
                ELSE <<>>
            originalAddColumn ==
                <<"ADD", " ", "COLUMN", " ", BT, st.columnName, BT, " ">> \o st.definition
            newAddColumn ==
                <<"ADD", " ", "COLUMN", " ", BT, st.columnName, BT, " ">>
                    \o cleanDefinition \o positioningClause
        IN IF ~NeedsFixAt(analysis, st.tableName, st.definition, validation)
           THEN FixGroup(analysis, statements, k + 1, modifiedAlterTable, alterTableChanges)
           ELSE Bind(ReplaceFirst(modifiedAlterTable, originalAddColumn, newAddColumn),
                     LAMBDA replaced :
                         FixGroup(analysis, statements, k + 1, replaced,
                                  Append(alterTableChanges,
                                         ChangeEntry(st.tableName, st.columnName,
                                                     PositionDesc(validation)))))))

\* the outer loop over the ALTER TABLE groups, keyed by fullMatch in the order
\* of first appearance
RECURSIVE FixGroups(_, _, _, _, _)
FixGroups(analysis, addColumnStatements, k, fixedSql, changes) ==
    IF k > Len(addColumnStatements) THEN [sql |-> fixedSql, changes |-> changes]
    ELSE
      Bind(addColumnStatements[k].fullMatch, LAMBDA originalAlterTable :
        IF \E j \in 1..(k - 1) : addColumnStatements[j].fullMatch = originalAlterTable
        THEN FixGroups(analysis, addColumnStatements, k + 1, fixedSql, changes)
        ELSE Bind(FixGroup(analysis,
                           SelectSeq(addColumnStatements,
                                     LAMBDA st : st.fullMatch = originalAlterTable),
                           1, originalAlterTable, <<>>),
                  LAMBDA g :
                      IF Len(g.changes) > 0
                      THEN Bind(ReplaceFirst(fixedSql, originalAlterTable, g.text),
                                LAMBDA replaced :
                                    FixGroups(analysis, addColumnStatements, k + 1,
                                              replaced, changes \o g.changes))
                      ELSE FixGroups(analysis, addColumnStatements, k + 1,
                                     fixedSql, changes)))

\* fixMigrationSql returning its result object whenever a clause was extracted
fixMigrationSqlAlwaysResult(sql, analysis) ==
    IF ~analysis.isSupported THEN UnsupportedFix
    ELSE Bind(extractAddColumnInfo(sql), LAMBDA addColumnStatements :
             IF Len(addColumnStatements) = 0 THEN NullFix
             ELSE Bind(FixGroups(analysis, addColumnStatements, 1, sql, <<>>), LAMBDA r :
                      [kind |-> "fixed", sql |-> r.sql, changes |-> r.changes]))

\* fixMigrationSql
fixMigrationSql(sql, analysis) ==
    IF ~analysis.isSupported THEN UnsupportedFix
    ELSE Bind(extractAddColumnInfo(sql), LAMBDA addColumnStatements :
             IF Len(addColumnStatements) = 0 THEN NullFix
             ELSE Bind(FixGroups(analysis, addColumnStatements, 1, sql, <<>>), LAMBDA r :
                      IF Len(r.changes) > 0
                      THEN [kind |-> "fixed", sql |-> r.sql, changes |-> r.changes]
                      ELSE NullFix))

\* ------------------------------------------------------------------------
\* MigrationFixer, the version that splits the text on ';'
\* ------------------------------------------------------------------------
\* sql.split(';'), from index `from` on
RECURSIVE SplitOnSemicolon(_, _)
SplitOnSemicolon(s, from) ==
    Bind({i \in from..Len(s) : s[i] = ";"}, LAMBDA semis :
        IF semis = {} THEN <<SubSeq(s, from, Len(s))>>
        ELSE Bind(Min(semis), LAMBDA i :
                 <<SubSeq(s, from, i - 1)>> \o SplitOnSemicolon(s, i + 1)))

\* /ALTER\s+TABLE.*ADD\s+COLUMN/i.test(s): '.' matches no line break
AlterThenAddOnOneLine(s) ==
    \E i \in DOMAIN s :
        Bind(KeywordPair(s, i, "ALTER", "TABLE"), LAMBDA k :
            /\ k # 0
            /\ \E j \in k..Len(s) :
                   /\ KeywordPair(s, j, "ADD", "COLUMN") # 0
                   /\ \A x \in k..(j - 1) : s[x] # NL)

\* /ALTER\s+TABLE\s+`?(\w+)`?\s+/i tried at index i: next is the index after
\* the match
NoTableMatch == [ok |-> FALSE, tableName |-> Null, length |-> 0]

TableMatchAt(s, i) ==
    Bind(KeywordPair(s, i, "ALTER", "TABLE"), LAMBDA k :
    Bind(IF k = 0 THEN 0 ELSE SkipSpaces(s, k), LAMBDA w :
    Bind(IF k # 0 /\ w > k THEN Ident(s, w) ELSE [name |-> Null, next |-> 0], LAMBDA id :
    Bind(IF id.next = 0 THEN 0 ELSE SkipSpaces(s, id.next), LAMBDA c :
        IF id.next # 0 /\ c > id.next
        THEN [ok |-> TRUE, tableName |-> id.name, length |-> c - i]
        ELSE NoTableMatch))))

\* remaining.toUpperCase().startsWith('ADD COLUMN')
StartsWithAddColumn(remaining) ==
    /\ Len(remaining) >= 3
    /\ Upper(remaining[1]) = "ADD"
    /\ remaining[2] = " "
    /\ Upper(remaining[3]) = "COLUMN"

\* the characters some branch of the loop of smartSplitAddColumns tests for;
\* every other character only extends `current`
SplitSpecial == {"\"", "'", "(", ")", ","}

\* the first index from i on that holds such a character (Len + 1: none)
NextSpecial(text, i) ==
    Min({k \in i..Len(text) : text[k] \in SplitSpecial} \cup {Len(text) + 1})

\* one pass of the loop body at index i, which holds such a character, and
\* the passes after it; `current` is the text from index start to i - 1
RECURSIVE SmartSplitFrom(_, _, _, _, _, _)
SmartSplitAt(text, i, start, parenDepth, inQuotes, quoteChar) ==
    IF ~inQuotes /\ text[i] \in {"\"", "'"}
    THEN SmartSplitFrom(text, i + 1, start, parenDepth, TRUE, text[i])
    ELSE IF inQuotes /\ text[i] = quoteChar /\ (i = 1 \/ text[i - 1] # "\\")
    THEN SmartSplitFrom(text, i + 1, start, parenDepth, FALSE, "")
    ELSE IF ~inQuotes /\ text[i] = "("
    THEN SmartSplitFrom(text, i + 1, start, parenDepth + 1, inQuotes, quoteChar)
    ELSE IF ~inQuotes /\ text[i] = ")"
    THEN SmartSplitFrom(text, i + 1, start, parenDepth - 1, inQuotes, quoteChar)
    ELSE IF /\ ~inQuotes /\ parenDepth = 0 /\ text[i] = ","
            /\ StartsWithAddColumn(Trim(SubSeq(text, i + 1, Len(text))))
    THEN <<Trim(SubSeq(text, start, i - 1))>>
             \o SmartSplitFrom(text, i + 1, i + 1, parenDepth, inQuotes, quoteChar)
    ELSE SmartSplitFrom(text, i + 1, start, parenDepth, inQuotes, quoteChar)

\* the character loop of smartSplitAddColumns from index `from` on
SmartSplitFrom(text, from, start, parenDepth, inQuotes, quoteChar) ==
    Bind(NextSpecial(text, from), LAMBDA i :
        IF i <= Len(text)
        THEN SmartSplitAt(text, i, start, parenDepth, inQuotes, quoteChar)
        ELSE Bind(Trim(SubSeq(text, start, Len(text))), LAMBDA current :
                 IF current # <<>> THEN <<current>> ELSE <<>>))

smartSplitAddColumns(text) == SmartSplitFrom(text, 1, 1, 0, FALSE, "")

\* /ADD\s+COLUMN\s+`?(\w+)`?\s+(.+)/i tried at index i: the definition runs to
\* the end of the line
ColumnMatchAt(s, i) ==
    Bind(KeywordPair(s, i, "ADD", "COLUMN"), LAMBDA k :
    Bind(IF k = 0 THEN 0 ELSE SkipSpaces(s, k), LAMBDA w :
    Bind(IF k # 0 /\ w > k THEN Ident(s, w) ELSE [name |-> Null, next |-> 0], LAMBDA id :
    Bind(IF id.next = 0 THEN 0 ELSE SkipSpaces(s, id.next), LAMBDA d :
        IF id.next # 0 /\ d > id.next /\ d <= Len(s)
        THEN [ok |-> TRUE, columnName |-> id.name,
              definition |-> SubSeq(s, d, Min({j \in d..Len(s) : s[j] = NL}
                                              \cup {Len(s) + 1}) - 1)]
        ELSE NoAddColumn))))

\* the first match of that pattern in a part
FirstColumnMatch(trimmedPart) ==
    Bind({i \in DOMAIN trimmedPart : ColumnMatchAt(trimmedPart, i).ok}, LAMBDA hits :
        IF hits = {} THEN NoAddColumn ELSE ColumnMatchAt(trimmedPart, Min(hits)))

\* the entry pushed for one match of one part
SplitEntry(sql, trimmedStatement, tableName, columnMatch) ==
    Bind(Trim(columnMatch.definition), LAMBDA definition :
    Bind(FindSub(sql, trimmedStatement), LAMBDA startIndex :
        [tableName |-> tableName,
         columnName |-> columnMatch.columnName,
         definition |-> definition,
         fullMatch |-> <<"ALTER", " ", "TABLE", " ", BT, tableName, BT, NL>>
                       \o Spaces(14)
                       \o <<"ADD", " ", "COLUMN", " ", BT, columnMatch.columnName, BT, " ">>
                       \o definition,
         startIndex |-> startIndex,
         endIndex |-> startIndex + Len(trimmedStatement)]))

\* the entries extractAddColumnInfo pushes for one chunk of sql.split(';')
ExtractFromStatement(sql, statement) ==
    Bind(Trim(statement), LAMBDA trimmedStatement :
    Bind({i \in DOMAIN trimmedStatement : TableMatchAt(trimmedStatement, i).ok}, LAMBDA hits :
        IF trimmedStatement = <<>> \/ ~AlterThenAddOnOneLine(trimmedStatement) \/ hits = {}
        THEN <<>>
        ELSE Bind(TableMatchAt(trimmedStatement, Min(hits)), LAMBDA tableMatch :
             Bind(smartSplitAddColumns(SubSeq(trimmedStatement, tableMatch.length + 1,
                                              Len(trimmedStatement))), LAMBDA addColumnParts :
             Bind(SelectSeq([p \in DOMAIN addColumnParts |->
                                FirstColumnMatch(Trim(addColumnParts[p]))],
                            LAMBDA m : m.ok), LAMBDA kept :
                 [p \in DOMAIN kept |->
                     SplitEntry(sql, trimmedStatement, tableMatch.tableName, kept[p])])))))

RECURSIVE ConcatAll(_)
ConcatAll(ss) == IF ss = <<>> THEN <<>> ELSE Head(ss) \o ConcatAll(Tail(ss))

\* extractAddColumnInfo of the splitting version
extractAddColumnInfoBySplit(sql) ==
    Bind(SplitOnSemicolon(sql, 1), LAMBDA statements :
        ConcatAll([p \in DOMAIN statements |-> ExtractFromStatement(sql, statements[p])]))

\* addColumnStatements.sort((a, b) => b.startIndex - a.startIndex): stable
RECURSIVE SortByStartIndexDesc(_)
SortByStartIndexDesc(ss) ==
    IF ss = <<>> THEN <<>>
    ELSE Bind(CHOOSE i \in DOMAIN ss :
                  /\ \A j \in DOMAIN ss : ss[j].startIndex <= ss[i].startIndex
                  /\ \A j \in 1..(i - 1) : ss[j].startIndex < ss[i].startIndex,
              LAMBDA top :
                  <<ss[top]>>
                  \o SortByStartIndexDesc(SubSeq(ss, 1, top - 1)
                                              \o SubSeq(ss, top + 1, Len(ss))))

\* positionedSql + ending for a statement that is to be rewritten
PositionedSql(st, validation) ==
    Bind(st.fullMatch[Len(st.fullMatch)], LAMBDA lastToken :
        <<"ALTER", " ", "TABLE", " ", BT, st.tableName, BT, NL>>
        \o Spaces(10)
        \o <<"ADD", " ", "COLUMN", " ", BT, st.columnName, BT, " ">>
        \o CleanDefinition(st.definition)
        \o (IF validation.position = 0 THEN <<" ", "FIRST">>
            ELSE <<" ", "AFTER", " ", BT, validation.afterColumn, BT>>)
        \o (IF lastToken \in {",", ";"} THEN <<lastToken>> ELSE <<>>))

\* the loop of fixMigrationSql over the sorted statements
RECURSIVE FixSorted(_, _, _, _, _)
FixSorted(analysis, sortedStatements, k, fixedSql, changes) ==
    IF k > Len(sortedStatements) THEN [sql |-> fixedSql, changes |-> changes]
    ELSE
      Bind(sortedStatements[k], LAMBDA st :
      Bind(validateColumn(analysis, st.tableName, st.columnName), LAMBDA validation :
        IF \/ ~NeedsFixAt(analysis, st.tableName, st.definition, validation)
           \/ (validation.position # 0 /\ validation.afterColumn = Null)
        THEN FixSorted(analysis, sortedStatements, k + 1, fixedSql, changes)
        ELSE Bind(ReplaceFirst(fixedSql, st.fullMatch, PositionedSql(st, validation)),
                  LAMBDA replaced :
                      FixSorted(analysis, sortedStatements, k + 1, replaced,
                                Append(changes,
                                       ChangeEntry(st.tableName, st.columnName,
                                                   PositionDesc(validation)))))))

\* fixMigrationSql of the splitting version
fixMigrationSqlBySplit(sql, analysis) ==
    IF ~analysis.isSupported THEN UnsupportedFix
    ELSE Bind(extractAddColumnInfoBySplit(sql), LAMBDA addColumnStatements :
             IF Len(addColumnStatements) = 0 THEN NullFix
             ELSE Bind(FixSorted(analysis, SortByStartIndexDesc(addColumnStatements),
                                 1, sql, <<>>), LAMBDA r :
                      IF Len(r.changes) > 0
                      THEN [kind |-> "fixed", sql |-> r.sql, changes |-> r.changes]
                      ELSE NullFix))

\* ------------------------------------------------------------------------
\* Migration files: the text Prisma writes for a list of statements
\* ------------------------------------------------------------------------
Quote(name, quoted) == IF quoted THEN <<BT, name, BT>> ELSE <<name>>

\* the column definition of a migration clause
DefinitionOf(column) ==
    CASE column = "id" -> <<"INT">>
      [] column = "name" -> <<"VARCHAR", "(", "191", ")">>
      [] column = "bio" -> <<"TEXT", " ", "NULL">>
      [] column = "createdAt" -> <<"DATETIME">>
      [] column = "a" -> <<"INT">>
      [] column = "role" -> <<"ENUM", "(", "'", "x", ",", "y", "'", ")">>
      [] column = "price" -> <<"DECIMAL", "(", "10", ",", " ", "2", ")">>
      [] column = "note" -> <<"TEXT", " ", "DEFAULT", " ",
                              "'", "x", ",", " ", "ADD", " ", "COLUMN", " ", "y", " ", "z", "'">>
      [] OTHER -> <<"TEXT">>

DropClause(column) == [op |-> "DROP", column |-> column, pos |-> "none", after |-> Null]

AddClause(column, pos, after) ==
    [op |-> "ADD", column |-> column, pos |-> pos, after |-> after]

\* the clauses a migration is written from: dropped columns (one of them
\* named first, which MySQL accepts as a column name), added columns at the
\* first, a middle and the last schema position and one the schema does not
\* hold, and a column that carries a positioning clause already
ClauseOptions ==
    {DropClause("legacy"), DropClause("first")}
    \cup {AddClause(c, "none", Null) : c \in {"id", "name", "bio", "createdAt", "nickname"}}
    \cup {AddClause("bio", "FIRST", Null), AddClause("bio", "AFTER", "name")}

PositioningText(c, quoted) ==
    CASE c.pos = "FIRST" -> <<" ", "FIRST">>
      [] c.pos = "AFTER" -> <<" ", "AFTER", " ">> \o Quote(c.after, quoted)
      [] OTHER -> <<>>

ClauseText(c, quoted) ==
    IF c.op = "DROP"
    THEN <<"DROP", " ", "COLUMN", " ">> \o Quote(c.column, quoted)
    ELSE <<"ADD", " ", "COLUMN", " ">> \o Quote(c.column, quoted) \o <<" ">>
             \o DefinitionOf(c.column) \o PositioningText(c, quoted)

RECURSIVE Join(_, _)
Join(parts, sep) ==
    IF parts = <<>> THEN <<>>
    ELSE IF Len(parts) = 1 THEN parts[1]
    ELSE parts[1] \o sep \o Join(Tail(parts), sep)

\* one ALTER TABLE statement, on one line or with every clause on its own
\* line; Text(c) is the text of clause c
StatementText(plan, clauses, Text(_)) ==
    LET texts == [i \in DOMAIN clauses |-> Text(clauses[i])]
        header == <<"ALTER", " ", "TABLE", " ">> \o Quote(plan.table, plan.quoted)
    IN IF plan.layout = "inline"
       THEN header \o <<" ">> \o Join(texts, <<",", " ">>) \o <<";">>
       ELSE header \o <<NL>> \o Spaces(4) \o Join(texts, <<",", NL>> \o Spaces(4)) \o <<";">>

MigrationTextWith(plan, Text(_)) ==
    (IF plan.comment THEN <<"--", " ", "AlterTable", NL>> ELSE <<>>)
    \o Join([i \in DOMAIN plan.statements |->
                 StatementText(plan, plan.statements[i], Text)],
            <<NL, NL>>)
    \o <<NL>>

MigrationText(plan) == MigrationTextWith(plan, LAMBDA c : ClauseText(c, plan.quoted))

\* clause lists of length at most n that name no column twice
RECURSIVE ClauseLists(_)
ClauseLists(n) ==
    IF n = 0 THEN {<<>>}
    ELSE LET shorter == ClauseLists(n - 1)
             longest == {cs \in shorter : Len(cs) = n - 1}
         IN shorter \cup
            UNION {{Append(cs, c) : c \in {x \in ClauseOptions :
                                              \A i \in DOMAIN cs : cs[i].column # x.column}}
                   : cs \in longest}

\* the clause list cut into statements after the indices in breaks
RECURSIVE Segments(_, _, _)
Segments(cs, breaks, from) ==
    IF from > Len(cs) THEN <<>>
    ELSE LET ends == {x \in breaks : x >= from} \cup {Len(cs)}
             e == CHOOSE x \in ends : \A y \in ends : x <= y
         IN <<SubSeq(cs, from, e)>> \o Segments(cs, breaks, e + 1)

\* every layout of every clause list for the table of the model, spelled as
\* the model or in lower case, and the one-clause migrations of a table the
\* schema does not hold
MigrationPlans ==
    {[table |-> tb, quoted |-> q, layout |-> ly, comment |-> cm,
      statements |-> Segments(cs, b, 1)] :
        tb \in {"User", "user"}, q \in BOOLEAN,
        ly \in {"inline", "multiline"}, cm \in BOOLEAN,
        cs \in ClauseLists(MaxClauses) \ {<<>>},
        b \in SUBSET (1..(MaxClauses - 1))}
    \cup
    {[table |-> "Other", quoted |-> q, layout |-> ly, comment |-> cm,
      statements |-> <<cs>>] :
        q \in BOOLEAN, ly \in {"inline", "multiline"}, cm \in BOOLEAN,
        cs \in ClauseLists(1) \ {<<>>}}

PlanClauses(plan) == ConcatAll(plan.statements)

\* ------------------------------------------------------------------------
\* MySQL: executing a migration file on a table, clause by clause
\* ------------------------------------------------------------------------
\* the text without its comment lines
RECURSIVE StripComments(_)
StripComments(s) ==
    Bind({i \in DOMAIN s : s[i] = "--"}, LAMBDA starts :
        IF starts = {} THEN s
        ELSE Bind(Min(starts), LAMBDA i :
             Bind(Min({j \in i..Len(s) : s[j] = NL} \cup {Len(s)}), LAMBDA e :
                 SubSeq(s, 1, i - 1) \o StripComments(SubSeq(s, e + 1, Len(s))))))

\* is index i of s inside a quoted string
InsideQuotes(s, i) == Cardinality({j \in 1..(i - 1) : s[j] = "'"}) % 2 = 1

\* the number of parentheses open at index i of s
OpenParens(s, i) ==
    Cardinality({j \in 1..(i - 1) : s[j] = "(" /\ ~InsideQuotes(s, j)})
        - Cardinality({j \in 1..(i - 1) : s[j] = ")" /\ ~InsideQuotes(s, j)})

\* the k-th smallest element of a set of numbers
Nth(S, k) == CHOOSE x \in S : Cardinality({y \in S : y < x}) = k - 1

\* the clauses of a statement: split at the commas outside parentheses and
\* quotes
SplitClauses(s) ==
    Bind({i \in DOMAIN s : s[i] = "," /\ ~InsideQuotes(s, i) /\ OpenParens(s, i) = 0},
         LAMBDA cuts :
             [k \in 1..(Cardinality(cuts) + 1) |->
                 Trim(SubSeq(s,
                             IF k = 1 THEN 1 ELSE Nth(cuts, k - 1) + 1,
                             IF k > Cardinality(cuts) THEN Len(s) ELSE Nth(cuts, k) - 1))])

SqlKeywords == {"ALTER", "TABLE", "ADD", "DROP", "COLUMN", "FIRST", "AFTER"}

FailedTable(columns) == [ok |-> FALSE, columns |-> columns]

\* DROP COLUMN name
ExecuteDrop(columns, name, rest) ==
    IF rest = <<>> /\ name \in Range(columns)
    THEN [ok |-> TRUE, columns |-> SelectSeq(columns, LAMBDA c : c # name)]
    ELSE FailedTable(columns)

\* ADD COLUMN name definition [FIRST | AFTER target]
ExecuteAdd(columns, name, rest) ==
    Bind(PositioningMatch(rest), LAMBDA pm :
    Bind(Trim(IF pm.found THEN SubSeq(rest, 1, pm.from - 1) ELSE rest), LAMBDA def :
    Bind(IF pm.found /\ Upper(rest[pm.kw]) = "AFTER"
         THEN Ident(rest, SkipSpaces(rest, pm.kw + 1)).name ELSE Null, LAMBDA target :
        IF \/ def = <<>>
           \/ \E i \in DOMAIN def :
                  /\ ~InsideQuotes(def, i) /\ OpenParens(def, i) = 0
                  /\ Upper(def[i]) \in SqlKeywords \/ def[i] = ","
           \/ name \in Range(columns)
        THEN FailedTable(columns)
        ELSE IF ~pm.found THEN [ok |-> TRUE, columns |-> Append(columns, name)]
        ELSE IF target = Null THEN [ok |-> TRUE, columns |-> <<name>> \o columns]
        ELSE IF target \notin Range(columns) THEN FailedTable(columns)
        ELSE [ok |-> TRUE,
              columns |-> InsertAt(columns, IndexOf(columns, target) + 1, name)])))

\* one clause of ALTER TABLE on the column names of the table
ExecuteClause(columns, clause) ==
    Bind(KeywordPair(clause, 1,
                     IF clause # <<>> /\ Upper(clause[1]) = "DROP" THEN "DROP" ELSE "ADD",
                     "COLUMN"),
         LAMBDA k :
    Bind(IF k = 0 THEN 0 ELSE SkipSpaces(clause, k), LAMBDA w :
    Bind(IF k # 0 /\ w > k THEN Ident(clause, w) ELSE [name |-> Null, next |-> 0], LAMBDA id :
        IF id.next = 0 THEN FailedTable(columns)
        ELSE IF Upper(clause[1]) = "DROP"
        THEN ExecuteDrop(columns, id.name, SubSeq(clause, id.next, Len(clause)))
        ELSE ExecuteAdd(columns, id.name, SubSeq(clause, id.next, Len(clause))))))

RECURSIVE ExecuteClauses(_, _, _)
ExecuteClauses(columns, clauses, k) ==
    IF k > Len(clauses) THEN [ok |-> TRUE, columns |-> columns]
    ELSE Bind(ExecuteClause(columns, clauses[k]), LAMBDA r :
             IF r.ok THEN ExecuteClauses(r.columns, clauses, k + 1) ELSE r)

\* the statements of a file one after the other; the first that fails stops
\* the migration and leaves the table as the statements before it left it
RECURSIVE ExecuteStatements(_, _, _)
ExecuteStatements(columns, statements, k) ==
    IF k > Len(statements) THEN [ok |-> TRUE, columns |-> columns]
    ELSE Bind(Trim(StripComments(statements[k])), LAMBDA st :
             IF st = <<>> THEN ExecuteStatements(columns, statements, k + 1)
             ELSE Bind(TableMatchAt(st, 1), LAMBDA tm :
                      IF ~tm.ok THEN FailedTable(columns)
                      ELSE Bind(ExecuteClauses(columns,
                                               SplitClauses(SubSeq(st, tm.length + 1,
                                                                   Len(st))), 1),
                                LAMBDA r :
                                    IF r.ok
                                    THEN ExecuteStatements(r.columns, statements, k + 1)
                                    ELSE FailedTable(columns))))

ExecuteMigrationSql(columns, sql) ==
    ExecuteStatements(columns, SplitOnSemicolon(sql, 1), 1)

\* the table the migration is meant for: the non-relation fields of the
\* model without the columns the migration adds, then the column it drops
TableBefore(plan) ==
    LET cs == PlanClauses(plan)
        added == {cs[i].column : i \in {j \in DOMAIN cs : cs[j].op = "ADD"}}
        dropped == SelectSeq(cs, LAMBDA c : c.op = "DROP")
    IN SelectSeq(getModelFieldOrder(FixerModels[1].fields), LAMBDA f : f \notin added)
       \o [i \in DOMAIN dropped |-> dropped[i].column]

\* ------------------------------------------------------------------------
\* Specification of one fixer run, a second run on its output, and the
\* execution of the resulting migration
\* ------------------------------------------------------------------------
FixerVersions == {"regex", "split"}

\* MigrationFixer.fixMigrationSql of the version that is built
FixWith(version, sql, prov) ==
    IF version = "regex" THEN fixMigrationSql(sql, getSchemaAnalysis(prov))
    ELSE fixMigrationSqlBySplit(sql, getSchemaAnalysis(prov))

IdleReorder ==
    /\ provider = "mysql"
    /\ modelFields = FixerModels[1].fields
    /\ tablePresent = TRUE
    /\ liveTable = <<>>
    /\ tableAtStart = <<>>
    /\ reorderOutcome = NoOutcome
    /\ executed = 0
    /\ reorderRun = NoRun
    /\ connectorCalls = <<>>
    /\ connectors = <<>>
    /\ generator = NoGenerator

InitFixer ==
    /\ IdleReorder
    /\ fixerVersion \in FixerVersions
    /\ migrationPlan \in MigrationPlans
    /\ migrationSql = MigrationText(migrationPlan)
    /\ migrationFile = migrationSql
    /\ fixOutcome = NoFix
    /\ refixOutcome = NoFix
    /\ fixerTable = [ok |-> TRUE, columns |-> TableBefore(migrationPlan)]
    /\ fixerPc = "written"
    /\ fileAccess = <<>>
    /\ fixRun = NoFixRun

\* getLatestMigration: the file system calls that find migration.sql in the
\* one migration directory
getLatestMigration == <<"readdirSync", "readdirSync", "statSync", "statSync">>

\* the text of the migration file once the fix has been applied
FixedOrOriginalSql == IF fixOutcome.kind = "fixed" THEN fixOutcome.sql ELSE migrationSql

\* MigrationFixer.fixLatestMigration()
FixLatestMigration ==
    /\ fixerPc = "written"
    /\ fileAccess' = fileAccess \o getLatestMigration \o <<"readFileSync">>
    /\ fixOutcome' = FixWith(fixerVersion, migrationFile, provider)
    /\ fixerPc' = "fixed"
    /\ UNCHANGED <<fixRun, fixerVersion, migrationPlan, migrationSql, migrationFile, refixOutcome,
                   fixerTable>>
    /\ UNCHANGED reorderVars

\* the fixed text is written back and the fixer runs again
FixAgain ==
    /\ fixerPc = "fixed"
    /\ fixOutcome.kind = "fixed"
    /\ migrationFile' = fixOutcome.sql
    /\ refixOutcome' = FixWith(fixerVersion, migrationFile', provider)
    /\ fileAccess' = fileAccess \o <<"writeFileSync">> \o getLatestMigration
                                \o <<"readFileSync">>
    /\ fixerPc' = "refixed"
    /\ UNCHANGED <<fixRun, fixerVersion, migrationPlan, migrationSql, fixOutcome, fixerTable>>
    /\ UNCHANGED reorderVars

\* the migration file is applied to the database
ExecuteMigration ==
    /\ fixerPc = "fixed"
    /\ fixerTable' = ExecuteMigrationSql(fixerTable.columns, FixedOrOriginalSql)
    /\ fixerPc' = "executed"
    /\ UNCHANGED <<fixRun, fixerVersion, migrationPlan, migrationSql, migrationFile, fixOutcome,
                   refixOutcome, fileAccess>>
    /\ UNCHANGED reorderVars

NextFixer == FixLatestMigration \/ FixAgain \/ ExecuteMigration

SpecFixer == InitFixer /\ [][NextFixer]_vars

\* ------------------------------------------------------------------------
\* Specification of the fixer run on migrations that add a column the schema
\* does not know: a column of a table without model, a column the model does
\* not declare, and the relation field of the model
\* ------------------------------------------------------------------------
UnknownClauseOptions ==
    ClauseOptions \cup {AddClause("posts", "none", Null)}

\* clause lists of length at most n over these options that name no column
\* twice
RECURSIVE UnknownClauseLists(_)
UnknownClauseLists(n) ==
    IF n = 0 THEN {<<>>}
    ELSE Bind(UnknownClauseLists(n - 1), LAMBDA shorter :
             shorter \cup
             UNION {{Append(cs, c) : c \in {x \in UnknownClauseOptions :
                                               \A i \in DOMAIN cs : cs[i].column # x.column}}
                    : cs \in {s \in shorter : Len(s) = n - 1}})

\* does the schema know the column added by clause c to the table
KnownClause(table, c) ==
    /\ Lower(table) = Lower(ModelName)
    /\ c.column \in Range(getModelFieldOrder(FixerModels[1].fields))

\* the layouts of the clause lists that hold an unknown clause for the table
UnknownPlansOf(tb) ==
    {[table |-> tb, quoted |-> q, layout |-> ly, comment |-> FALSE,
      statements |-> Segments(cs, b, 1)] :
        q \in BOOLEAN, ly \in {"inline", "multiline"},
        cs \in {l \in UnknownClauseLists(MaxClauses) :
                   \E i \in DOMAIN l : l[i].op = "ADD" /\ ~KnownClause(tb, l[i])},
        b \in SUBSET (1..(MaxClauses - 1))}

UnknownPlans == UnknownPlansOf("User") \cup UnknownPlansOf("Other")

InitUnknown ==
    /\ IdleReorder
    /\ fixerVersion \in FixerVersions
    /\ migrationPlan \in UnknownPlans
    /\ migrationSql = MigrationText(migrationPlan)
    /\ migrationFile = migrationSql
    /\ fixOutcome = NoFix
    /\ refixOutcome = NoFix
    /\ fixerTable = [ok |-> TRUE, columns |-> TableBefore(migrationPlan)]
    /\ fixerPc = "written"
    /\ fileAccess = <<>>
    /\ fixRun = NoFixRun

SpecUnknown == InitUnknown /\ [][NextFixer]_vars

\* ------------------------------------------------------------------------
\* Specification of the fixer run on migrations whose table and column
\* names are spelled in another letter case than the model and its fields
\* ------------------------------------------------------------------------
CaseClauseOptions ==
    {DropClause("legacy")}
    \cup {AddClause(c, "none", Null) : c \in {"name", "NAME", "Name", "bio", "BIO", "id"}}

\* clause lists of length at most n over these options that name no column
\* twice, whatever its letter case (MySQL column names are case-insensitive)
RECURSIVE CaseClauseLists(_)
CaseClauseLists(n) ==
    IF n = 0 THEN {<<>>}
    ELSE Bind(CaseClauseLists(n - 1), LAMBDA shorter :
             shorter \cup
             UNION {{Append(cs, c) : c \in {x \in CaseClauseOptions :
                                               \A i \in DOMAIN cs :
                                                   Lower(cs[i].column) # Lower(x.column)}}
                    : cs \in {s \in shorter : Len(s) = n - 1}})

CasePlans ==
    {[table |-> tb, quoted |-> q, layout |-> "inline", comment |-> FALSE,
      statements |-> Segments(cs, b, 1)] :
        tb \in {"User", "user", "USER"}, q \in BOOLEAN,
        cs \in CaseClauseLists(MaxClauses) \ {<<>>},
        b \in SUBSET (1..(MaxClauses - 1))}

\* the table the migration is meant for, its columns named as the fields
CaseTableBefore(plan) ==
    LET cs == PlanClauses(plan)
        added == {Lower(cs[i].column) : i \in {j \in DOMAIN cs : cs[j].op = "ADD"}}
        dropped == SelectSeq(cs, LAMBDA c : c.op = "DROP")
    IN SelectSeq(getModelFieldOrder(FixerModels[1].fields), LAMBDA f : Lower(f) \notin added)
       \o [i \in DOMAIN dropped |-> dropped[i].column]

InitCase ==
    /\ IdleReorder
    /\ fixerVersion \in FixerVersions
    /\ migrationPlan \in CasePlans
    /\ migrationSql = MigrationText(migrationPlan)
    /\ migrationFile = migrationSql
    /\ fixOutcome = NoFix
    /\ refixOutcome = NoFix
    /\ fixerTable = [ok |-> TRUE, columns |-> CaseTableBefore(migrationPlan)]
    /\ fixerPc = "written"
    /\ fileAccess = <<>>
    /\ fixRun = NoFixRun

SpecCase == InitCase /\ [][NextFixer]_vars

\* ------------------------------------------------------------------------
\* Specification of the fixer run on one-line statements whose column
\* definitions hold commas inside parentheses and inside quoted literals
\* ------------------------------------------------------------------------
NestedClauseOptions ==
    {AddClause(c, "none", Null) : c \in {"a", "role", "price", "note", "name"}}

RECURSIVE NestedClauseLists(_)
NestedClauseLists(n) ==
    IF n = 0 THEN {<<>>}
    ELSE Bind(NestedClauseLists(n - 1), LAMBDA shorter :
             shorter \cup
             UNION {{Append(cs, c) : c \in {x \in NestedClauseOptions :
                                               \A i \in DOMAIN cs : cs[i].column # x.column}}
                    : cs \in {s \in shorter : Len(s) = n - 1}})

NestedPlans ==
    {[table |-> "User", quoted |-> q, layout |-> "inline", comment |-> cm,
      statements |-> Segments(cs, b, 1)] :
        q \in BOOLEAN, cm \in BOOLEAN,
        cs \in NestedClauseLists(MaxClauses) \ {<<>>},
        b \in SUBSET (1..(MaxClauses - 1))}

InitNested ==
    /\ IdleReorder
    /\ fixerVersion \in FixerVersions
    /\ migrationPlan \in NestedPlans
    /\ migrationSql = MigrationText(migrationPlan)
    /\ migrationFile = migrationSql
    /\ fixOutcome = NoFix
    /\ refixOutcome = NoFix
    /\ fixerTable = [ok |-> TRUE, columns |-> TableBefore(migrationPlan)]
    /\ fixerPc = "written"
    /\ fileAccess = <<>>
    /\ fixRun = NoFixRun

SpecNested == InitNested /\ [][NextFixer]_vars

\* ------------------------------------------------------------------------
\* Specification of the fixer run under every provider of the schema
\* ------------------------------------------------------------------------
\* the one-line migrations without comment
ProviderPlans == {p \in MigrationPlans : p.layout = "inline" /\ ~p.comment}

InitProviders ==
    /\ provider \in Providers
    /\ modelFields = FixerModels[1].fields
    /\ tablePresent = TRUE
    /\ liveTable = <<>>
    /\ tableAtStart = <<>>
    /\ reorderOutcome = NoOutcome
    /\ executed = 0
    /\ reorderRun = NoRun
    /\ connectorCalls = <<>>
    /\ connectors = <<>>
    /\ generator = NoGenerator
    /\ fixerVersion \in FixerVersions
    /\ migrationPlan \in ProviderPlans
    /\ migrationSql = MigrationText(migrationPlan)
    /\ migrationFile = migrationSql
    /\ fixOutcome = NoFix
    /\ refixOutcome = NoFix
    /\ fixerTable = [ok |-> TRUE, columns |-> TableBefore(migrationPlan)]
    /\ fixerPc = "written"
    /\ fileAccess = <<>>
    /\ fixRun = NoFixRun

SpecProviders == InitProviders /\ [][NextFixer]_vars

\* ------------------------------------------------------------------------
\* Specification of the three ways a fix is asked for: fixLatestMigration,
\* applyFixes, and the fix-migration command with and without --apply
\* ------------------------------------------------------------------------
InitApply ==
    /\ IdleReorder
    /\ fixerVersion \in FixerVersions
    /\ migrationPlan \in ProviderPlans
    /\ migrationSql = MigrationText(migrationPlan)
    /\ migrationFile = migrationSql
    /\ fixOutcome = NoFix
    /\ refixOutcome = NoFix
    /\ fixerTable = [ok |-> TRUE, columns |-> TableBefore(migrationPlan)]
    /\ fixerPc = "written"
    /\ fileAccess = <<>>
    /\ fixRun = NoFixRun

\* MigrationFixer.applyFixes(): fixLatestMigration, then writeFileSync when
\* it returned a result
ApplyFixes ==
    /\ fixerPc = "written"
    /\ fixOutcome' = FixWith(fixerVersion, migrationFile, provider)
    /\ IF fixOutcome'.kind = "fixed"
       THEN /\ migrationFile' = fixOutcome'.sql
            /\ fileAccess' = fileAccess \o getLatestMigration
                                 \o <<"readFileSync", "writeFileSync">>
       ELSE /\ migrationFile' = migrationFile
            /\ fileAccess' = fileAccess \o getLatestMigration \o <<"readFileSync">>
    /\ fixerPc' = "applied"
    /\ UNCHANGED <<fixRun, fixerVersion, migrationPlan, migrationSql, refixOutcome, fixerTable>>
    /\ UNCHANGED reorderVars

\* FixMigrationCommand.execute(options): getLatestMigration, then
\* fixLatestMigration, then the report on the console; options.apply is not
\* read
ExecuteFixMigrationCommand ==
    /\ fixerPc = "written"
    /\ \E apply \in BOOLEAN :
          fixerPc' = IF apply THEN "fix-migration --apply" ELSE "fix-migration"
    /\ fixOutcome' = FixWith(fixerVersion, migrationFile, provider)
    /\ fileAccess' = fileAccess \o getLatestMigration \o getLatestMigration
                         \o <<"readFileSync">>
    /\ UNCHANGED <<fixRun, fixerVersion, migrationPlan, migrationSql, migrationFile, refixOutcome,
                   fixerTable>>
    /\ UNCHANGED reorderVars

NextApply == FixLatestMigration \/ ApplyFixes \/ ExecuteFixMigrationCommand

SpecApply == InitApply /\ [][NextApply]_vars

\* ------------------------------------------------------------------------
\* Specification of one fixMigrationSql call of src/lib/migration-fixer.ts,
\* await by await, next to an editor that saves the schema file
\* ------------------------------------------------------------------------
\* SchemaReader.analyzeSchema: the analysis of the schema file as it stands
analyzeSchema(prov, fields) ==
    [provider |-> prov, isSupported |-> prov \in SUPPORTED_PROVIDERS,
     models |-> <<[name |-> ModelName, fields |-> fields]>>]

\* the contents the schema file takes: the model as it was, bio declared
\* before name, createdAt declared first
SchemaFiles ==
    Bind(FixerModels[1].fields, LAMBDA f :
        {f,
         <<f[1], f[2], f[5], f[4], f[3], f[6]>>,
         <<f[6], f[1], f[2], f[3], f[4], f[5]>>})

InitSnapshot ==
    /\ IdleReorder
    /\ fixerVersion = "split"
    /\ migrationPlan \in ProviderPlans
    /\ migrationSql = MigrationText(migrationPlan)
    /\ migrationFile = migrationSql
    /\ fixOutcome = NoFix
    /\ refixOutcome = NoFix
    /\ fixerTable = [ok |-> TRUE, columns |-> TableBefore(migrationPlan)]
    /\ fixerPc = "written"
    /\ fileAccess = <<>>
    /\ fixRun = NoFixRun

\* the statements the loop of fixMigrationSql runs over
SortedStatements == SortByStartIndexDesc(extractAddColumnInfoBySplit(migrationFile))

\* what fixMigrationSql returns for the changes it has collected
ReturnedFix(fixedSql, changes) ==
    IF Len(changes) > 0 THEN [kind |-> "fixed", sql |-> fixedSql, changes |-> changes]
    ELSE NullFix

\* fixLatestMigration up to the first await of the loop: the migration file
\* is read, fixMigrationSql reads the schema analysis and extracts the
\* statements
StartFixMigrationSql ==
    /\ fixerPc = "written"
    /\ fixRun.pc = "idle"
    /\ fileAccess' = fileAccess \o getLatestMigration \o <<"readFileSync">>
    /\ fixRun' =
           Bind(analyzeSchema(provider, modelFields), LAMBDA analysis :
               [pc |-> IF analysis.isSupported /\ Len(SortedStatements) > 0
                       THEN "loop" ELSE "done",
                analysis |-> analysis, next |-> 1, fixedSql |-> migrationFile,
                changes |-> <<>>, reads |-> <<modelFields>>])
    /\ fixOutcome' = IF fixRun'.pc = "loop" THEN fixOutcome
                     ELSE IF ~fixRun'.analysis.isSupported THEN UnsupportedFix
                     ELSE NullFix
    /\ fixerPc' = IF fixRun'.pc = "loop" THEN fixerPc ELSE "fixed"
    /\ UNCHANGED <<fixerVersion, migrationPlan, migrationSql, migrationFile, refixOutcome,
                   fixerTable>>
    /\ UNCHANGED reorderVars

\* one pass of the loop: validateColumn reads the schema analysis again, the
\* statement is decided and, after the last statement, the result returned
ValidateColumnAndFix ==
    /\ fixRun.pc = "loop"
    /\ fixRun' =
           Bind(SortedStatements[fixRun.next], LAMBDA st :
           Bind(validateColumn(analyzeSchema(provider, modelFields),
                               st.tableName, st.columnName), LAMBDA validation :
           Bind(\/ ~NeedsFixAt(fixRun.analysis, st.tableName, st.definition, validation)
                \/ (validation.position # 0 /\ validation.afterColumn = Null),
                LAMBDA skipped :
               [pc |-> IF fixRun.next = Len(SortedStatements) THEN "done" ELSE "loop",
                analysis |-> fixRun.analysis,
                next |-> fixRun.next + 1,
                fixedSql |-> IF skipped THEN fixRun.fixedSql
                             ELSE ReplaceFirst(fixRun.fixedSql, st.fullMatch,
                                               PositionedSql(st, validation)),
                changes |-> IF skipped THEN fixRun.changes
                            ELSE Append(fixRun.changes,
                                        ChangeEntry(st.tableName, st.columnName,
                                                    PositionDesc(validation))),
                reads |-> Append(fixRun.reads, modelFields)])))
    /\ fixOutcome' = IF fixRun'.pc = "done"
                     THEN ReturnedFix(fixRun'.fixedSql, fixRun'.changes)
                     ELSE fixOutcome
    /\ fixerPc' = IF fixRun'.pc = "done" THEN "fixed" ELSE fixerPc
    /\ UNCHANGED <<fixerVersion, migrationPlan, migrationSql, migrationFile, refixOutcome,
                   fixerTable, fileAccess>>
    /\ UNCHANGED reorderVars

\* an editor saves the schema file with another field order while the call
\* is in progress
SchemaFileChanges ==
    /\ fixerPc = "written"
    /\ modelFields' \in SchemaFiles \ {modelFields}
    /\ UNCHANGED <<connectors, generator, provider, tablePresent, liveTable, tableAtStart,
                   reorderOutcome, executed, reorderRun, connectorCalls>>
    /\ UNCHANGED fixerVars

NextSnapshot == StartFixMigrationSql \/ ValidateColumnAndFix \/ SchemaFileChanges

SpecSnapshot == InitSnapshot /\ [][NextSnapshot]_vars

\* ------------------------------------------------------------------------
\* Specification of one DatabaseConnector and the awaited calls made on it,
\* against a database that may refuse the connection
\* (connection.end() is taken to succeed)
\* ------------------------------------------------------------------------
MaxCalls == 5

\* new DatabaseConnector(provider, databaseUrl): this.connection is null (0);
\* `open` holds the connections of the driver that were created and not
\* ended, `created` counts the mysql.createConnection calls that resolved
NewConnector == [connection |-> 0, open |-> {}, created |-> 0]

\* connect that creates a connection whether or not one is held
connectUnguarded(c, reachable) ==
    IF reachable
    THEN [connection |-> c.created + 1, open |-> c.open \cup {c.created + 1},
          created |-> c.created + 1]
    ELSE c

\* DatabaseConnector.connect: mysql.createConnection rejects when the
\* database is not reachable, and this.connection stays as it was
connect(c, reachable) ==
    IF c.connection # 0 THEN c
    ELSE IF reachable
    THEN [connection |-> c.created + 1, open |-> c.open \cup {c.created + 1},
          created |-> c.created + 1]
    ELSE c

\* DatabaseConnector.disconnect
disconnect(c) ==
    IF c.connection # 0
    THEN [c EXCEPT !.open = @ \ {c.connection}, !.connection = 0]
    ELSE c

\* DatabaseConnector.testConnection: the query changes nothing, an error is
\* caught
testConnection(c, reachable) ==
    IF c.connection = 0 THEN connect(c, reachable) ELSE c

\* DatabaseConnector.tableExists, as far as the connection goes
tableExistsConnection(c, reachable) ==
    IF c.connection = 0 THEN connect(c, reachable) ELSE c

InitConnector ==
    /\ provider = "mysql"
    /\ modelFields = FixerModels[1].fields
    /\ tablePresent = TRUE
    /\ liveTable = <<>>
    /\ tableAtStart = <<>>
    /\ reorderOutcome = NoOutcome
    /\ executed = 0
    /\ reorderRun = NoRun
    /\ connectorCalls = <<>>
    /\ connectors = <<NewConnector>>
    /\ generator = NoGenerator
    /\ IdleFixer

\* one awaited call on the connector
ConnectorCall(method, after) ==
    /\ Len(connectorCalls) < MaxCalls
    /\ connectorCalls' = Append(connectorCalls, Call(method, Null))
    /\ connectors' = [connectors EXCEPT ![1] = after]
    /\ UNCHANGED <<generator, provider, modelFields, tablePresent, liveTable, tableAtStart,
                   reorderOutcome, executed, reorderRun>>
    /\ UNCHANGED fixerVars

AwaitConnect ==
    \E reachable \in BOOLEAN :
        ConnectorCall("connect", connect(connectors[1], reachable))

AwaitTestConnection ==
    \E reachable \in BOOLEAN :
        ConnectorCall("testConnection", testConnection(connectors[1], reachable))

AwaitTableExists ==
    \E reachable \in BOOLEAN :
        ConnectorCall("tableExists", tableExistsConnection(connectors[1], reachable))

AwaitDisconnect == ConnectorCall("disconnect", disconnect(connectors[1]))

NextConnector == AwaitConnect \/ AwaitTestConnection \/ AwaitTableExists \/ AwaitDisconnect

SpecConnector == InitConnector /\ [][NextConnector]_vars

\* ------------------------------------------------------------------------
\* Specification of generateReorderSQL calls that overlap on one
\* ColumnReorderGenerator, await by await, the database reachable
\* ------------------------------------------------------------------------
OverlappingCalls == 2

\* a call that has not passed its first await; `own` is the connector the
\* call creates
NewCall == [pc |-> "start", own |-> 0]

\* one call on a connector, made by a generateReorderSQL call
CallBy(call, method, connector) ==
    [call |-> call, method |-> method, connector |-> connector]

InitOverlap ==
    /\ provider = "mysql"
    /\ modelFields = FixerModels[1].fields
    /\ tablePresent = TRUE
    /\ liveTable = <<>>
    /\ tableAtStart = <<>>
    /\ reorderOutcome = NoOutcome
    /\ executed = 0
    /\ reorderRun = NoRun
    /\ connectorCalls = <<>>
    /\ connectors = <<>>
    /\ generator = [dbConnector |-> 0, calls |-> [i \in 1..OverlappingCalls |-> NewCall]]
    /\ IdleFixer

OverlapUnchanged ==
    /\ UNCHANGED <<provider, modelFields, tablePresent, liveTable, tableAtStart,
                   reorderOutcome, executed, reorderRun>>
    /\ UNCHANGED fixerVars

\* this.dbConnector = new DatabaseConnector(provider, databaseUrl), and
\* connect() is called on it: the connector holds no connection, so
\* mysql.createConnection is awaited
NewDatabaseConnector(i) ==
    /\ generator.calls[i].pc = "start"
    /\ connectors' = Append(connectors, NewConnector)
    /\ generator' = [dbConnector |-> Len(connectors) + 1,
                     calls |-> [generator.calls EXCEPT
                                    ![i] = [pc |-> "connecting",
                                            own |-> Len(connectors) + 1]]]
    /\ connectorCalls' = Append(connectorCalls,
                                CallBy(i, "new DatabaseConnector", Len(connectors) + 1))
    /\ OverlapUnchanged

\* mysql.createConnection resolves inside connect(): the connection is
\* assigned to the connector connect() was called on
ConnectResolves(i) ==
    /\ generator.calls[i].pc = "connecting"
    /\ connectors' = [connectors EXCEPT
                          ![generator.calls[i].own] = connect(@, TRUE)]
    /\ generator' = [generator EXCEPT !.calls[i].pc = "connected"]
    /\ connectorCalls' = Append(connectorCalls,
                                CallBy(i, "connect", generator.calls[i].own))
    /\ OverlapUnchanged

\* generateModelReorderSQL: this.dbConnector.tableExists(tableName), which
\* connects when the connector holds no connection
TableExistsOnDbConnector(i) ==
    /\ generator.calls[i].pc = "connected"
    /\ connectors' = [connectors EXCEPT
                          ![generator.dbConnector] = tableExistsConnection(@, TRUE)]
    /\ generator' = [generator EXCEPT !.calls[i].pc = "queried"]
    /\ connectorCalls' = Append(connectorCalls,
                                CallBy(i, "tableExists", generator.dbConnector))
    /\ OverlapUnchanged

\* the finally block: this.dbConnector.disconnect()
DisconnectDbConnector(i) ==
    /\ generator.calls[i].pc = "queried"
    /\ connectors' = [connectors EXCEPT ![generator.dbConnector] = disconnect(@)]
    /\ generator' = [generator EXCEPT !.calls[i].pc = "done"]
    /\ connectorCalls' = Append(connectorCalls,
                                CallBy(i, "disconnect", generator.dbConnector))
    /\ OverlapUnchanged

NextOverlap ==
    \E i \in 1..OverlappingCalls :
        \/ NewDatabaseConnector(i)
        \/ ConnectResolves(i)
        \/ TableExistsOnDbConnector(i)
        \/ DisconnectDbConnector(i)

SpecOverlap == InitOverlap /\ [][NextOverlap]_vars

\* ------------------------------------------------------------------------
\* Specification of one generateReorderSQL call, statement by statement,
\* against a database whose connection and queries may fail
\* (connection.end() is taken to succeed)
\* ------------------------------------------------------------------------
\* model names in one request
MaxRequested == 3

\* scalar fields of the model of this specification
RunFields == 2

RequestableNames == {ModelName, "Ghost", "Phantom"}

\* the database call that fails in this run
Failures == {"none", "connect", "tableExists", "getTableMetadata"}

\* the message of the error the database driver rejects with
CauseMessage(failure) ==
    CASE failure = "connect" -> "Connection failed"
      [] failure = "tableExists" -> "Query error"
      [] failure = "getTableMetadata" -> "Metadata error"
      [] OTHER -> Null

\* analysis.models
RunModels == <<[name |-> ModelName, fields |-> modelFields]>>

UnsupportedProviderError(prov) ==
    [type |-> "provider not supported",
     message |-> <<"Database provider ", prov, " is not supported for column reordering">>]

\* missingModels.join(', ') is kept as the list of its names
ModelsNotFoundError(missing) ==
    [type |-> "models not found", message |-> <<"Models not found in schema: ">> \o missing]

TableNotFoundError(tableName, modelName) ==
    [type |-> "table not found",
     message |-> <<"Table ", tableName, " not found in database for model ", modelName>>]

\* the error of the driver, passed on as it is
DriverError(failure) == [type |-> "database", message |-> <<CauseMessage(failure)>>]

\* analysis.models.filter(model => modelNames.includes(model.name)), or all
targetModels(explicit, modelNames, models) ==
    IF explicit THEN SelectSeq(models, LAMBDA m : m.name \in Range(modelNames))
    ELSE models

\* missingModels that stops at the first missing name
missingModelsFirstOnly(modelNames, models) ==
    Bind(SelectSeq(modelNames, LAMBDA name :
                       ~\E i \in DOMAIN models : models[i].name = name), LAMBDA missing :
        IF missing = <<>> THEN <<>> ELSE <<missing[1]>>)

\* modelNames.filter(name => !analysis.models.some(model => model.name === name))
missingModels(modelNames, models) ==
    SelectSeq(modelNames, LAMBDA name : ~\E i \in DOMAIN models : models[i].name = name)

\* tableExists that answers true whatever the database holds
tableExistsAlways(present, failure) == TRUE

\* DatabaseConnector.tableExists: a failing query is caught and answered false
tableExists(present, failure) ==
    IF failure = "tableExists" THEN FALSE ELSE present

\* a throw that leaves the call at once
ThrownPastFinally(run, error) == [run EXCEPT !.thrown = error, !.pc = "rejected"]

\* a throw inside the try block: the finally block runs before the call rejects
Thrown(run, error) == [run EXCEPT !.thrown = error, !.pc = "finally"]

\* the live tables of the model of this specification
RunTables(mapped) == LiveTables(RunFields, mapped)

\* the requests: modelNames undefined, or a list of names
Requests ==
    {[NoRun EXCEPT !.pc = "called", !.explicit = FALSE, !.failure = f] : f \in Failures}
    \cup {[NoRun EXCEPT !.pc = "called", !.explicit = TRUE, !.modelNames = m,
                        !.failure = f] :
              m \in InjSeqs(RequestableNames, MaxRequested), f \in Failures}

InitRun ==
    /\ provider \in Providers
    /\ tablePresent \in BOOLEAN
    /\ \E mapped \in BOOLEAN :
          /\ modelFields = ModelOf(RunFields, mapped)
          /\ IF tablePresent
             THEN liveTable \in RunTables(mapped)
             ELSE liveTable = <<>>
    /\ tableAtStart = NamesOf(liveTable)
    /\ reorderOutcome = NoOutcome
    /\ executed = 0
    /\ reorderRun \in Requests
    /\ connectorCalls = <<>>
    /\ connectors = <<>>
    /\ generator = NoGenerator
    /\ IdleFixer

\* generateReorderSQL: the schema analysis and the provider check
CheckProvider ==
    /\ reorderRun.pc = "called"
    /\ IF getSchemaAnalysis(provider).isSupported
       THEN /\ reorderRun' = [reorderRun EXCEPT !.pc = "supported"]
            /\ UNCHANGED reorderOutcome
       ELSE /\ reorderRun' = [reorderRun EXCEPT
                                 !.pc = "rejected",
                                 !.thrown = UnsupportedProviderError(provider)]
            /\ reorderOutcome' = [kind |-> "error", error |-> "provider not supported",
                                  results |-> <<>>]
    /\ UNCHANGED <<connectors, generator, provider, modelFields, tablePresent, liveTable, tableAtStart, executed,
                   connectorCalls>>
    /\ UNCHANGED fixerVars

\* this.dbConnector = new DatabaseConnector(provider, databaseUrl)
CreateConnector ==
    /\ reorderRun.pc = "supported"
    /\ reorderRun' = [reorderRun EXCEPT !.pc = "created"]
    /\ connectorCalls' = Append(connectorCalls, Call("new DatabaseConnector", Null))
    /\ UNCHANGED <<connectors, generator, provider, modelFields, tablePresent, liveTable, tableAtStart,
                   reorderOutcome, executed>>
    /\ UNCHANGED fixerVars

\* await this.dbConnector.connect()
Connect ==
    /\ reorderRun.pc = "created"
    /\ connectorCalls' = Append(connectorCalls, Call("connect", Null))
    /\ reorderRun' = IF reorderRun.failure = "connect"
                     THEN Thrown(reorderRun, DriverError("connect"))
                     ELSE [reorderRun EXCEPT !.pc = "connected", !.connection = TRUE]
    /\ UNCHANGED <<connectors, generator, provider, modelFields, tablePresent, liveTable, tableAtStart,
                   reorderOutcome, executed>>
    /\ UNCHANGED fixerVars

\* targetModels, the missing-models check, and results = []
SelectModels ==
    /\ reorderRun.pc = "connected"
    /\ reorderRun' =
           Bind(targetModels(reorderRun.explicit, reorderRun.modelNames, RunModels),
                LAMBDA target :
           Bind(IF reorderRun.explicit
                THEN missingModels(reorderRun.modelNames, RunModels)
                ELSE <<>>, LAMBDA missing :
               IF Len(missing) > 0
               THEN Thrown(reorderRun, ModelsNotFoundError(missing))
               ELSE [reorderRun EXCEPT
                        !.targetModels = [i \in DOMAIN target |-> target[i].name],
                        !.next = 1,
                        !.results = <<>>,
                        !.pc = IF target = <<>> THEN "finally" ELSE "loop"]))
    /\ UNCHANGED <<connectors, generator, provider, modelFields, tablePresent, liveTable, tableAtStart,
                   reorderOutcome, executed, connectorCalls>>
    /\ UNCHANGED fixerVars

\* generateModelReorderSQL up to the table-existence check
CheckTableExists ==
    /\ reorderRun.pc = "loop"
    /\ connectorCalls' = Append(connectorCalls,
                                Call("tableExists", getTableName(modelFields)))
    /\ reorderRun' =
           IF tableExists(tablePresent, reorderRun.failure)
           THEN [reorderRun EXCEPT !.pc = "exists"]
           ELSE Thrown(reorderRun,
                       TableNotFoundError(getTableName(modelFields),
                                          reorderRun.targetModels[reorderRun.next]))
    /\ UNCHANGED <<connectors, generator, provider, modelFields, tablePresent, liveTable, tableAtStart,
                   reorderOutcome, executed>>
    /\ UNCHANGED fixerVars

\* generateModelReorderSQL from the metadata fetch on, and results.push
FetchMetadata ==
    /\ reorderRun.pc = "exists"
    /\ connectorCalls' = Append(connectorCalls,
                                Call("getTableMetadata", getTableName(modelFields)))
    /\ reorderRun' =
           IF reorderRun.failure = "getTableMetadata"
           THEN Thrown(reorderRun, DriverError("getTableMetadata"))
           ELSE Bind(generateModelReorderSQL(modelFields, liveTable, provider),
                     LAMBDA result :
                    [reorderRun EXCEPT
                        !.results = IF Len(result.changes) > 0
                                    THEN Append(reorderRun.results, result)
                                    ELSE reorderRun.results,
                        !.next = reorderRun.next + 1,
                        !.pc = IF reorderRun.next + 1 > Len(reorderRun.targetModels)
                               THEN "finally" ELSE "loop"])
    /\ UNCHANGED <<connectors, generator, provider, modelFields, tablePresent, liveTable, tableAtStart,
                   reorderOutcome, executed>>
    /\ UNCHANGED fixerVars

\* the finally block, then the call returns results or rejects
Disconnect ==
    /\ reorderRun.pc = "finally"
    /\ connectorCalls' = Append(connectorCalls, Call("disconnect", Null))
    /\ reorderRun' = [reorderRun EXCEPT
                         !.connection = FALSE,
                         !.pc = IF reorderRun.thrown = NoError THEN "returned"
                                ELSE "rejected"]
    /\ reorderOutcome' =
           IF reorderRun.thrown = NoError
           THEN [kind |-> "ok", error |-> Null, results |-> reorderRun.results]
           ELSE [kind |-> "error", error |-> reorderRun.thrown.type, results |-> <<>>]
    /\ UNCHANGED <<connectors, generator, provider, modelFields, tablePresent, liveTable, tableAtStart, executed>>
    /\ UNCHANGED fixerVars

NextRun ==
    \/ CheckProvider
    \/ CreateConnector
    \/ Connect
    \/ SelectModels
    \/ CheckTableExists
    \/ FetchMetadata
    \/ Disconnect

SpecRun == InitRun /\ [][NextRun]_vars

\* ------------------------------------------------------------------------
\* Claims about the reorder run
\* ------------------------------------------------------------------------
\* the physical columns the schema declares, in declaration order
ScalarColumns ==
    LET kept == SelectSeq(modelFields, LAMBDA f : ~f.isRelation)
    IN [i \in DOMAIN kept |-> kept[i].column]

Restrict(s, other) == SelectSeq(s, LAMBDA x : x \in Range(other))

IsPermutationOf(a, b) == Len(a) = Len(b) /\ Range(a) = Range(b)

AllExecuted == reorderOutcome.kind = "ok" /\ executed = Len(EmittedSql)

MovedColumns == [i \in DOMAIN EmittedSql |-> EmittedSql[i][14]]

\* the positioning of an emitted statement: <<"FIRST">> or <<"AFTER", p>>
PositionOf(stmt) == IF stmt[19] = "FIRST" THEN <<"FIRST">> ELSE <<"AFTER", stmt[22]>>

EmittedPositions == [i \in DOMAIN EmittedSql |-> PositionOf(EmittedSql[i])]

\* C1: when the live column order is a permutation of the schema's column
\* order, executing every emitted MODIFY COLUMN statement in the order
\* emitted leaves the table in exactly the schema's order.
C1_MovesReachExpectedOrder ==
    (AllExecuted /\ IsPermutationOf(tableAtStart, ScalarColumns))
        => NamesOf(liveTable) = ScalarColumns

C1_Witness ==
    /\ AllExecuted
    /\ IsPermutationOf(tableAtStart, ScalarColumns)
    /\ Len(ScalarColumns) >= 3
    /\ tableAtStart # ScalarColumns
    /\ executed >= 2
    /\ executed < Len(ScalarColumns)
    /\ NamesOf(liveTable) = ScalarColumns

\* C6 as claimed: when the schema order and the live order agree once both
\* are restricted to their common names, the run returns no entry for the
\* model.
C6_RestrictedEqualGivesNoEntry ==
    (reorderOutcome.kind = "ok"
     /\ Restrict(ScalarColumns, tableAtStart) = Restrict(tableAtStart, ScalarColumns))
        => reorderOutcome.results = <<>>

\* every column the schema and the table share sits, in the live table, at
\* the index it has in the schema order restricted to live columns
CommonColumnsInPlace ==
    LET expected == Restrict(ScalarColumns, tableAtStart)
    IN \A i \in DOMAIN expected : IndexOf(tableAtStart, expected[i]) = i - 1

\* C6 amended: when the two restricted orders agree and no live column that
\* the schema lacks stands before a shared column, the run returns no entry
\* for the model (no move, no statement).
C6_InPlaceGivesNoEntry ==
    (reorderOutcome.kind = "ok" /\ CommonColumnsInPlace)
        => /\ reorderOutcome.results = <<>>
           /\ EmittedSql = <<>>
           /\ EmittedChanges = <<>>

C6_Witness ==
    /\ reorderOutcome.kind = "ok"
    /\ CommonColumnsInPlace
    /\ Len(Restrict(ScalarColumns, tableAtStart)) >= 2
    /\ Len(Restrict(ScalarColumns, tableAtStart)) < Len(ScalarColumns)
    /\ "legacy" \in Range(tableAtStart)
    /\ reorderOutcome.results = <<>>

Scenario1 ==
    /\ reorderOutcome.kind = "ok"
    /\ ScalarColumns = <<"id", "email", "name", "createdAt">>
    /\ tableAtStart = <<"createdAt", "email", "id", "name">>

\* C7 as claimed: schema (id, email, name, createdAt) against the live order
\* (createdAt, email, id, name) gives the moves id FIRST, email AFTER id,
\* name AFTER email and none for createdAt.
C7_MovesIdEmailName ==
    Scenario1 =>
        /\ MovedColumns = <<"id", "email", "name">>
        /\ EmittedPositions = <<<<"FIRST">>, <<"AFTER", "id">>, <<"AFTER", "email">>>>

\* C7 amended: that scenario gives exactly three moves, id FIRST, name AFTER
\* email and createdAt AFTER name; email, whose live index already equals its
\* schema index, gets no statement.
C7_MovesIdNameCreatedAt ==
    Scenario1 =>
        /\ MovedColumns = <<"id", "name", "createdAt">>
        /\ EmittedPositions = <<<<"FIRST">>, <<"AFTER", "email">>, <<"AFTER", "name">>>>
        /\ [i \in DOMAIN EmittedChanges |-> EmittedChanges[i].column]
               = <<"id", "name", "createdAt">>

C7_Witness == Scenario1 /\ executed = 3 /\ NamesOf(liveTable) = ScalarColumns


\* ------------------------------------------------------------------------
\* Claims about the fixer run
\* ------------------------------------------------------------------------
SchemaOrder == getModelFieldOrder(FixerModels[1].fields)

\* the migration alters the table of the model
OnModelTable == Lower(migrationPlan.table) = Lower(ModelName)

\* fixLatestMigration has just returned
FixReturned == fixerPc = "fixed"

AddedClauses == SelectSeq(PlanClauses(migrationPlan), LAMBDA c : c.op = "ADD")

\* the parts of a change entry
EntryColumn(entry) == entry[11]

EntryPosition(entry) == SubSeq(entry, 14, Len(entry) - 1)

EntriesFor(column) == {i \in DOMAIN fixOutcome.changes :
                          EntryColumn(fixOutcome.changes[i]) = column}

\* the clauses of every statement of a text, each trimmed
ClausesOfText(sql) ==
    LET statements == SplitOnSemicolon(sql, 1)
        clausesOf(chunk) ==
            LET st == Trim(StripComments(chunk))
                tm == TableMatchAt(st, 1)
            IN IF st = <<>> \/ ~tm.ok THEN <<>>
               ELSE SplitClauses(SubSeq(st, tm.length + 1, Len(st)))
    IN ConcatAll([i \in DOMAIN statements |-> clausesOf(statements[i])])

\* is the clause an ADD COLUMN clause for the column
AddsColumn(clause, column) ==
    LET k == KeywordPair(clause, 1, "ADD", "COLUMN")
    IN k # 0 /\ Ident(clause, SkipSpaces(clause, k)).name = column

EndsWith(s, suffix) ==
    Len(suffix) <= Len(s) /\ SubSeq(s, Len(s) - Len(suffix) + 1, Len(s)) = suffix

\* the positioning clause the schema asks for, the target quoted or not
SchemaPositioning(column, quoted) ==
    LET i == IndexOf(SchemaOrder, column)
    IN IF i = 0 THEN <<" ", "FIRST">>
       ELSE <<" ", "AFTER", " ">> \o Quote(SchemaOrder[i], quoted)

LastField == SchemaOrder[Len(SchemaOrder)]

\* C2: for every migration text for which the fixer returns a fix, running
\* the fixer again on the returned text with the same schema returns null
C2_SecondRunReturnsNull ==
    fixerPc = "refixed" => refixOutcome.kind = "null"

\* C3: on a table that holds, in schema order, the model's non-relation
\* fields except the added ones, executing the fixer's output (or the
\* unchanged migration when the fixer returns null) clause by clause leaves
\* the columns in exactly the schema order
C3_ExecutionLeavesSchemaOrder ==
    (/\ fixerPc = "executed"
     /\ OnModelTable
     /\ \A i \in DOMAIN AddedClauses : AddedClauses[i].column \in Range(SchemaOrder))
    => (fixerTable.ok /\ fixerTable.columns = SchemaOrder)

\* the text of the migration around its ADD COLUMN clauses
Hole == "<clause>"

RECURSIVE SplitAtHoles(_, _)
SplitAtHoles(s, from) ==
    LET holes == {i \in from..Len(s) : s[i] = Hole}
    IN IF holes = {} THEN <<SubSeq(s, from, Len(s))>>
       ELSE LET i == CHOOSE x \in holes : \A y \in holes : x <= y
            IN <<SubSeq(s, from, i - 1)>> \o SplitAtHoles(s, i + 1)

FrameOf(plan) ==
    SplitAtHoles(MigrationTextWith(plan, LAMBDA c : IF c.op = "ADD" THEN <<Hole>>
                                                     ELSE ClauseText(c, plan.quoted)), 1)

\* may the text stand where the k-th ADD COLUMN clause stood: the clause as
\* it was when no change entry names its column, else one ADD COLUMN clause
\* for the same column
StandsForClause(text, c) ==
    IF EntriesFor(c.column) = {}
    THEN text = ClauseText(c, migrationPlan.quoted)
    ELSE /\ AddsColumn(text, c.column)
         /\ \A i \in DOMAIN text : text[i] # ";"
         /\ Len(SplitClauses(text)) = 1

\* does out, from index pos on, read frame[k], a clause, frame[k + 1], ...
RECURSIVE MatchesFrame(_, _, _, _)
MatchesFrame(out, pos, frame, k) ==
    LET next == pos + Len(frame[k])
    IN /\ OccursAt(out, frame[k], pos)
       /\ IF k = Len(frame) THEN next = Len(out) + 1
          ELSE \E p \in next..(Len(out) + 1) :
                   /\ StandsForClause(SubSeq(out, next, p - 1), AddedClauses[k])
                   /\ MatchesFrame(out, p, frame, k + 1)

\* C4: a fix changes only the text of the rewritten ADD COLUMN clauses;
\* every other clause, statement, comment and whitespace run of the input
\* stands in the fixed SQL byte for byte and in the same order
C4_OnlyAddColumnClausesChange ==
    (FixReturned /\ fixOutcome.kind = "fixed")
    => MatchesFrame(fixOutcome.sql, 1, FrameOf(migrationPlan), 1)

\* C5: a non-null result has fixed SQL that differs from the original, and
\* for every change entry the ADD COLUMN clause of its column in the fixed
\* SQL ends with exactly the positioning clause the entry names
C5_FixedSqlDiffersAndEndsAsEntrySays ==
    (FixReturned /\ fixOutcome.kind = "fixed")
    => /\ fixOutcome.sql # migrationSql
       /\ \A i \in DOMAIN fixOutcome.changes :
              LET entry == fixOutcome.changes[i]
                  clauses == ClausesOfText(fixOutcome.sql)
              IN \E j \in DOMAIN clauses :
                     /\ AddsColumn(clauses[j], EntryColumn(entry))
                     /\ EndsWith(clauses[j], <<" ">> \o EntryPosition(entry))

\* C8: an ADD COLUMN clause without positioning whose column is a
\* non-relation field of the matched model and not the last one is rewritten
\* to end with FIRST (first field) or AFTER the non-relation field declared
\* just before it, whether or not the input quotes its identifiers
C8_UnpositionedClauseIsRewritten ==
    FixReturned =>
        \A i \in DOMAIN AddedClauses :
            LET c == AddedClauses[i]
                clauses == ClausesOfText(fixOutcome.sql)
            IN (/\ OnModelTable
                /\ c.pos = "none"
                /\ c.column \in Range(SchemaOrder)
                /\ c.column # LastField)
               => /\ fixOutcome.kind = "fixed"
                  /\ \E j \in DOMAIN clauses, q \in BOOLEAN :
                         /\ AddsColumn(clauses[j], c.column)
                         /\ EndsWith(clauses[j], SchemaPositioning(c.column, q))

\* the ADD COLUMN clauses of the last non-relation field that carry no
\* positioning clause
IsUnpositionedLast(c) ==
    OnModelTable /\ c.op = "ADD" /\ c.column = LastField /\ c.pos = "none"

\* C9: an ADD COLUMN clause for the last non-relation field without a
\* positioning clause is never modified and yields no change entry; a
\* migration whose only ADD COLUMN clauses are of this kind yields null, also
\* when they share a statement with DROP COLUMN clauses
C9_UnpositionedLastColumnIsLeftAlone ==
    FixReturned =>
        /\ \A i \in DOMAIN AddedClauses :
               IsUnpositionedLast(AddedClauses[i])
               => /\ EntriesFor(AddedClauses[i].column) = {}
                  /\ fixOutcome.kind = "fixed"
                     => \E j \in DOMAIN ClausesOfText(fixOutcome.sql) :
                            ClausesOfText(fixOutcome.sql)[j]
                                = ClauseText(AddedClauses[i], migrationPlan.quoted)
        /\ (/\ AddedClauses # <<>>
            /\ \A i \in DOMAIN AddedClauses : IsUnpositionedLast(AddedClauses[i]))
           => fixOutcome.kind = "null"

\* what the built version extracts from the migration text
ExtractedClauses ==
    IF fixerVersion = "regex" THEN extractAddColumnInfo(migrationSql)
    ELSE extractAddColumnInfoBySplit(migrationSql)

\* the decision chain skips the extracted clause
Skipped(st) ==
    ~NeedsFix(getSchemaAnalysis(provider), st.tableName, st.columnName, st.definition)

\* C10: the fixer returns null exactly when the input holds no ADD COLUMN
\* clause or every extracted clause was skipped; every non-null result
\* carries at least one change entry
C10_NullExactlyWhenNothingToFix ==
    FixReturned =>
        /\ fixOutcome.kind \in {"null", "fixed"}
        /\ fixOutcome.kind = "null"
           <=> \/ ~HasAddColumn(migrationSql)
               \/ \A i \in DOMAIN ExtractedClauses : Skipped(ExtractedClauses[i])
        /\ fixOutcome.kind = "fixed" => Len(fixOutcome.changes) >= 1

\* a null return for a migration whose extracted clauses were all skipped,
\* next to a dropped column
C10_Witness ==
    /\ FixReturned
    /\ fixOutcome.kind = "null"
    /\ ExtractedClauses # <<>>
    /\ \E i \in DOMAIN PlanClauses(migrationPlan) : PlanClauses(migrationPlan)[i].op = "DROP"

\* the ADD COLUMN clauses the schema knows nothing about: the table matches
\* no model, or the column is no non-relation field of the model
IsUnknownClause(c) ==
    c.op = "ADD" /\ (~OnModelTable \/ c.column \notin Range(SchemaOrder))

\* C11: an ADD COLUMN clause whose table matches no model, or whose column
\* is not a non-relation field of the matched model, stands unchanged in the
\* resulting text, yields no change entry and raises no error, and every
\* other extracted clause that needs a fix still gets its change entry
C11_UnknownClauseIsSkipped ==
    FixReturned =>
        Bind(ClausesOfText(FixedOrOriginalSql), LAMBDA clauses :
        Bind(SelectSeq(ExtractedClauses, LAMBDA st : ~Skipped(st)), LAMBDA toFix :
            \A i \in DOMAIN AddedClauses :
                IsUnknownClause(AddedClauses[i])
                => /\ fixOutcome.kind # "error"
                   /\ EntriesFor(AddedClauses[i].column) = {}
                   /\ ClauseText(AddedClauses[i], migrationPlan.quoted) \in Range(clauses)
                   /\ \A j \in DOMAIN toFix : EntriesFor(toFix[j].columnName) # {}))

\* the relation field is skipped and the clause after it is fixed
C11_Witness ==
    /\ FixReturned
    /\ OnModelTable
    /\ Len(AddedClauses) = 2
    /\ AddedClauses[1].column = "posts"
    /\ AddedClauses[2].column = "name"
    /\ fixOutcome.kind = "fixed"
    /\ EntriesFor("posts") = {}
    /\ EntriesFor("name") # {}
    /\ fixOutcome.sql # migrationSql

\* C12: within one ALTER TABLE statement a comma inside parentheses or
\* inside a quoted literal ends no clause: the clauses extracted are the
\* ADD COLUMN clauses of the statement, one for one, each with its whole
\* definition
C12_NestedCommaEndsNoClause ==
    FixReturned =>
        Bind(ExtractedClauses, LAMBDA extracted :
            /\ Len(extracted) = Len(AddedClauses)
            /\ \A i \in DOMAIN extracted :
                   /\ extracted[i].columnName = AddedClauses[i].column
                   /\ extracted[i].definition = DefinitionOf(AddedClauses[i].column))

\* the same migration with every statement written on one line
OneLinePlan == [migrationPlan EXCEPT !.layout = "inline"]

\* the columns of the clauses the built version extracts from a text
ExtractedColumns(sql) ==
    Bind(IF fixerVersion = "regex" THEN extractAddColumnInfo(sql)
         ELSE extractAddColumnInfoBySplit(sql), LAMBDA extracted :
        [i \in DOMAIN extracted |-> extracted[i].columnName])

\* C13: an ALTER TABLE statement that spans several lines, its first ADD
\* COLUMN clause on a later line than ALTER TABLE, is extracted and fixed
\* like the same statement written on one line: the same columns are
\* extracted, the same result kind and change entries are returned, and the
\* clauses of the fixed text are the same
C13_MultiLineFixedLikeOneLine ==
    (FixReturned /\ migrationPlan.layout = "multiline")
    => Bind(FixWith(fixerVersion, MigrationText(OneLinePlan), provider), LAMBDA oneLine :
           /\ ExtractedColumns(migrationSql) = ExtractedColumns(MigrationText(OneLinePlan))
           /\ fixOutcome.kind = oneLine.kind
           /\ fixOutcome.changes = oneLine.changes
           /\ ClausesOfText(fixOutcome.sql) = ClausesOfText(oneLine.sql))

\* the 0-based position of the non-relation field whose name is the column
\* name in some letter case, -1 when there is none
FieldIgnoringCase(column) ==
    IF \E i \in DOMAIN SchemaOrder : Lower(SchemaOrder[i]) = Lower(column)
    THEN (CHOOSE i \in DOMAIN SchemaOrder : Lower(SchemaOrder[i]) = Lower(column)) - 1
    ELSE -1

\* C14: the schema lookup matches the SQL table name against the model names
\* and the SQL column name against the field names without regard to letter
\* case: for every added column of a migration the fixer has run on, the
\* lookup finds the model whose name is the table name in some letter case
\* and the field whose name is the column name in some letter case, and an
\* unpositioned column found anywhere but at the last position gets a change
\* entry
C14_LookupIgnoresLetterCase ==
    FixReturned =>
        \A i \in DOMAIN AddedClauses :
            Bind(validateColumn(getSchemaAnalysis(provider), migrationPlan.table,
                                AddedClauses[i].column), LAMBDA v :
            Bind(IF OnModelTable THEN FieldIgnoringCase(AddedClauses[i].column) ELSE -1,
                 LAMBDA position :
                /\ v.exists = (position # -1)
                /\ v.position = position
                /\ (position # -1 /\ position # Len(SchemaOrder) - 1
                    /\ AddedClauses[i].pos = "none")
                   => EntriesFor(AddedClauses[i].column) # {}))

\* ------------------------------------------------------------------------
\* Claims about the generateReorderSQL call and about providers
\* ------------------------------------------------------------------------
RunFinished == reorderRun.pc \in {"returned", "rejected"}

CallsOf(method) == {i \in DOMAIN connectorCalls : connectorCalls[i].method = method}

\* C15: every generateReorderSQL run that creates a database connector calls
\* disconnect on it before the call returns or rejects, on every path: when
\* the call has returned or rejected and a connector was created, disconnect
\* has been called, once, as the last call on the connector, and no
\* connection is left open
C15_DisconnectBeforeCallEnds ==
    (RunFinished /\ CallsOf("new DatabaseConnector") # {})
    => /\ CallsOf("disconnect") = {Len(connectorCalls)}
       /\ ~reorderRun.connection

\* a run whose metadata fetch failed has rejected after disconnecting
C15_Witness ==
    /\ reorderRun.pc = "rejected"
    /\ reorderRun.failure = "getTableMetadata"
    /\ reorderRun.thrown = DriverError("getTableMetadata")
    /\ CallsOf("getTableMetadata") # {}
    /\ connectorCalls[Len(connectorCalls)].method = "disconnect"

\* C16: when the provider of the schema is anything other than mysql or
\* mariadb, generateReorderSQL fails with the unsupported-provider error
\* without ever creating a database connector or opening a connection
C16_UnsupportedProviderTouchesNoDatabase ==
    provider \notin {"mysql", "mariadb"}
    => /\ connectorCalls = <<>>
       /\ ~reorderRun.connection
       /\ reorderRun.pc \in {"called", "rejected"}
       /\ reorderRun.pc = "rejected"
          => /\ reorderRun.thrown = UnsupportedProviderError(provider)
             /\ reorderOutcome.kind = "error"
             /\ reorderOutcome.error = "provider not supported"

C16_Witness ==
    /\ provider = "postgresql"
    /\ reorderRun.pc = "rejected"
    /\ reorderRun.thrown.message[2] = "postgresql"
    /\ connectorCalls = <<>>

\* C17: when the provider of the schema is unsupported, the fixer raises the
\* unsupported-provider error before the migrations directory or the
\* migration file is read, and never writes the migration file: once
\* fixLatestMigration has run, its outcome is the error and the file system
\* has not been touched
C17_UnsupportedProviderTouchesNoFile ==
    (provider \notin {"mysql", "mariadb"} /\ fixerPc # "written")
    => /\ fixOutcome.kind = "error"
       /\ fileAccess = <<>>

\* C18: for every model processed, the table-existence check completes
\* before any metadata fetch for that table; if the table does not exist the
\* run fails with an error naming both the table and the model, and no
\* metadata fetch is issued for that table
C18_TableExistsBeforeMetadata ==
    /\ \A i \in CallsOf("getTableMetadata") :
           /\ i > 1
           /\ connectorCalls[i - 1] = Call("tableExists", connectorCalls[i].table)
    /\ ~tablePresent => CallsOf("getTableMetadata") = {}
    /\ (~tablePresent /\ RunFinished /\ CallsOf("tableExists") # {})
       => /\ reorderRun.pc = "rejected"
          /\ reorderOutcome.kind = "error"
          /\ reorderRun.thrown.type = "table not found"
          /\ reorderRun.thrown.message[2] = getTableName(modelFields)
          /\ reorderRun.thrown.message[4] = ModelName

\* the table users of the model User is missing
C18_Witness ==
    /\ ~tablePresent
    /\ reorderRun.pc = "rejected"
    /\ reorderRun.failure = "none"
    /\ reorderRun.thrown = TableNotFoundError("users", "User")
    /\ CallsOf("tableExists") # {}
    /\ CallsOf("getTableMetadata") = {}

\* the requested names the schema does not hold, in the order of the request
RequestedMissing == SelectSeq(reorderRun.modelNames, LAMBDA n : n # ModelName)

\* the call has failed with the error that lists every missing name
MissingNamesListed ==
    /\ reorderRun.pc = "rejected"
    /\ reorderRun.thrown.type = "models not found"
    /\ SubSeq(reorderRun.thrown.message, 2, Len(reorderRun.thrown.message))
           = RequestedMissing

\* C19 as stated: if any explicitly requested model name is absent from the
\* schema, generateReorderSQL fails with an error listing every missing name
\* and returns no results at all
C19_MissingModelsAlwaysListed ==
    (RunFinished /\ reorderRun.explicit /\ RequestedMissing # <<>>)
    => /\ MissingNamesListed
       /\ reorderOutcome.results = <<>>

\* C19: if any explicitly requested model name is absent from the schema,
\* generateReorderSQL fails and returns no results at all, even for requested
\* models that exist, and no table is looked at; when the provider is
\* supported and the connection could be opened the error lists every
\* missing name, otherwise the error is the unsupported-provider error or
\* the connection error
C19_MissingModelsListedOnceConnected ==
    (RunFinished /\ reorderRun.explicit /\ RequestedMissing # <<>>)
    => /\ reorderRun.pc = "rejected"
       /\ reorderOutcome.kind = "error"
       /\ reorderOutcome.results = <<>>
       /\ CallsOf("tableExists") = {} /\ CallsOf("getTableMetadata") = {}
       /\ IF provider \notin {"mysql", "mariadb"}
          THEN reorderRun.thrown = UnsupportedProviderError(provider)
          ELSE IF reorderRun.failure = "connect"
          THEN reorderRun.thrown = DriverError("connect")
          ELSE MissingNamesListed

\* two names are missing around one the schema holds, whose table is out of
\* order
C19_Witness ==
    /\ reorderRun.pc = "rejected"
    /\ reorderRun.modelNames = <<"Ghost", ModelName, "Phantom">>
    /\ reorderRun.thrown.message = <<"Models not found in schema: ", "Ghost", "Phantom">>
    /\ tablePresent
    /\ Len(generateModelReorderSQL(modelFields, liveTable, provider).changes) > 0
    /\ reorderOutcome.results = <<>>

\* C20: any database connect or query failure during a reorder run,
\* including a failure of the table-existence query, reaches the caller of
\* generateReorderSQL as an error carrying the underlying cause message: when
\* the call has ended after the failing database call was made, it has
\* rejected with an error whose message holds the message of the driver
C20_FailureCarriesCause ==
    (RunFinished /\ reorderRun.failure # "none" /\ CallsOf(reorderRun.failure) # {})
    => /\ reorderRun.pc = "rejected"
       /\ reorderOutcome.kind = "error"
       /\ CauseMessage(reorderRun.failure) \in Range(reorderRun.thrown.message)

\* ------------------------------------------------------------------------
\* Claims about the emitted statements and moves
\* ------------------------------------------------------------------------
\* the schema's physical columns that the table held when the run started
FilteredExpected == Restrict(ScalarColumns, tableAtStart)

\* the type definition the live metadata holds for a column
LiveDefinition(col) ==
    liveTable[CHOOSE i \in DOMAIN liveTable : liveTable[i].name = col].type

\* the text of a MODIFY COLUMN statement up to its positioning
ModifyHead(col) ==
    <<"ALTER", " ", "TABLE", " ", BT, getTableName(modelFields), BT, " ",
      "MODIFY", " ", "COLUMN", " ", BT, col, BT, " ", LiveDefinition(col), " ">>

\* C21: each emitted reorder statement is ALTER TABLE `<table>` MODIFY COLUMN
\* `<col>` <definition> FIRST; when the target index of the column is 0 and
\* otherwise ends AFTER `<p>`; where p is the column immediately before it in
\* the expected order filtered to live columns, so that p is a live column
\* other than <col>, and <definition> is the type definition of the live
\* metadata of that column
C21_StatementFormat ==
    reorderOutcome.kind = "ok" =>
        \A k \in DOMAIN EmittedSql :
            Bind(EmittedSql[k][14], LAMBDA col :
            Bind(IndexOf(FilteredExpected, col), LAMBDA i :
                /\ i >= 0
                /\ col \in Range(NamesOf(liveTable))
                /\ IF i = 0
                   THEN EmittedSql[k] = ModifyHead(col) \o <<"FIRST", ";">>
                   ELSE /\ EmittedSql[k] = ModifyHead(col)
                               \o <<"AFTER", " ", BT, FilteredExpected[i], BT, ";">>
                        /\ FilteredExpected[i] \in Range(tableAtStart)
                        /\ FilteredExpected[i] # col))

\* a run on a renamed table that holds a column the schema lacks and misses
\* one the schema declares, with a FIRST and an AFTER statement
C21_Witness ==
    /\ reorderOutcome.kind = "ok"
    /\ Len(EmittedSql) >= 2
    /\ EmittedSql[1][19] = "FIRST"
    /\ EmittedSql[2][19] = "AFTER"
    /\ EmittedSql[2][22] = "email_address"
    /\ getTableName(modelFields) = "users"
    /\ "legacy" \in Range(tableAtStart)
    /\ Len(FilteredExpected) < Len(ScalarColumns)

\* the logical names of the scalar fields, in declaration order
ScalarFields ==
    LET kept == SelectSeq(modelFields, LAMBDA f : ~f.isRelation)
    IN [i \in DOMAIN kept |-> kept[i].name]

\* does the schema rename the table and a column
Renamed == \E i \in DOMAIN modelFields : modelFields[i].name # modelFields[i].column

\* the physical column the schema gives a logical field
PhysicalColumn(field) ==
    modelFields[CHOOSE i \in DOMAIN modelFields : modelFields[i].name = field].column

WriteBackRequested == fixerPc \in {"applied", "fix-migration --apply"}

FileWritten == "writeFileSync" \in Range(fileAccess)

\* C23: the migration file on disk is modified if and only if write-back is
\* explicitly requested (the fix-migration command run with --apply, or
\* applyFixes) and the fixer found a fix; computing a fix result alone never
\* changes the file, and with write-back the fixed SQL is what ends up in the
\* latest migration file
C23_FileModifiedIffApplyAndFix ==
    fixerPc # "written" =>
        /\ FileWritten <=> (WriteBackRequested /\ fixOutcome.kind = "fixed")
        /\ (WriteBackRequested /\ fixOutcome.kind = "fixed")
           => migrationFile = fixOutcome.sql
        /\ ~FileWritten => migrationFile = migrationSql

\* ------------------------------------------------------------------------
\* Claims about the set of moves
\* ------------------------------------------------------------------------
\* the sets of columns whose relative order in the live table is their
\* relative order in the schema: a set of single-column moves reaches the
\* schema order exactly when the columns it leaves alone form such a set
\* (the others are then moved to their place one by one)
InRelativeOrder ==
    {S \in SUBSET Range(tableAtStart) :
        \A a, b \in S :
            IndexOf(tableAtStart, a) < IndexOf(tableAtStart, b)
                <=> IndexOf(ScalarColumns, a) < IndexOf(ScalarColumns, b)}

\* the size of the smallest set of moves that reaches the schema order
MinimalMoves ==
    Len(tableAtStart)
    - (CHOOSE n \in 0..Len(tableAtStart) :
           /\ \E S \in InRelativeOrder : Cardinality(S) = n
           /\ \A S \in InRelativeOrder : Cardinality(S) <= n)

\* C24: the set of moves emitted for a table is a minimal set of
\* single-column positional moves that transforms the current order into the
\* expected order: when the live order is a permutation of the schema
\* order, no smaller set of moves reaches the schema order
C24_MovesAreMinimal ==
    (reorderOutcome.kind = "ok" /\ IsPermutationOf(tableAtStart, ScalarColumns))
        => Len(EmittedChanges) = MinimalMoves

\* the columns whose index in the live table is not their index in the schema
OutOfPlace ==
    {c \in Range(ScalarColumns) : IndexOf(tableAtStart, c) # IndexOf(ScalarColumns, c)}

\* C24 amended: when the live order is a permutation of the schema order, the
\* emitted set holds one move for every column whose live index differs
\* from its schema index; executed in the order emitted these moves reach
\* the schema order, and the set is never smaller than a minimal one but
\* can be larger
C24_OneMovePerColumnOutOfPlace ==
    (reorderOutcome.kind = "ok" /\ IsPermutationOf(tableAtStart, ScalarColumns))
        => /\ Len(EmittedChanges) = Cardinality(OutOfPlace)
           /\ Range(MovedColumns) = OutOfPlace
           /\ Len(EmittedChanges) >= MinimalMoves
           /\ AllExecuted => NamesOf(liveTable) = ScalarColumns

\* three moves are emitted and executed where moving name behind email
\* alone reaches the schema order
C24_Witness ==
    /\ AllExecuted
    /\ ScalarColumns = <<"id", "email", "name">>
    /\ tableAtStart = <<"name", "id", "email">>
    /\ Len(EmittedSql) = 3
    /\ MinimalMoves = 1
    /\ NamesOf(liveTable) = ScalarColumns

\* the columns of the filtered expected order whose live index is not their
\* index in that order, in ascending index
Flagged ==
    SelectSeq(FilteredExpected,
              LAMBDA c : IndexOf(tableAtStart, c) # IndexOf(FilteredExpected, c))

\* C25: the emitted moves are exactly the columns of the filtered expected
\* order (schema columns absent from the live table removed) whose index in
\* the live column order differs from their index i in the filtered expected
\* order, listed in ascending i, each with fromPosition equal to its index
\* in the live order and toPosition equal to i
C25_MovesAreTheFlaggedColumns ==
    reorderOutcome.kind = "ok" =>
        /\ MovedColumns = Flagged
        /\ Len(EmittedChanges) = Len(Flagged)
        /\ \A k \in DOMAIN EmittedChanges :
               /\ PhysicalColumn(EmittedChanges[k].column) = Flagged[k]
               /\ EmittedChanges[k].fromPosition = IndexOf(tableAtStart, Flagged[k])
               /\ EmittedChanges[k].toPosition = IndexOf(FilteredExpected, Flagged[k])
               /\ EmittedChanges[k].operation = "move"

\* a table that lacks a schema column and holds a foreign one in front: a
\* column is flagged, the next one stands at its index and is not
C25_Witness ==
    /\ reorderOutcome.kind = "ok"
    /\ Len(FilteredExpected) < Len(ScalarColumns)
    /\ "legacy" \in Range(tableAtStart)
    /\ Len(Flagged) >= 2
    /\ Len(Flagged) < Len(FilteredExpected)
    /\ EmittedChanges[1].fromPosition > EmittedChanges[1].toPosition
    /\ EmittedChanges[2].toPosition > EmittedChanges[1].toPosition + 1

\* ------------------------------------------------------------------------
\* Claims about clauses that carry a positioning clause
\* ------------------------------------------------------------------------
\* does the positioning clause of c name the position the schema gives its
\* column, whatever the letter case and the quoting of the target
NamesExpectedPosition(c) ==
    Bind(IndexOf(SchemaOrder, c.column), LAMBDA i :
        \/ c.pos = "FIRST" /\ i = 0
        \/ c.pos = "AFTER" /\ i > 0 /\ Lower(c.after) = Lower(SchemaOrder[i]))

\* the clause for the column with the definition of c and the positioning
\* clause of the schema
RewrittenClauses(c) ==
    {<<"ADD", " ", "COLUMN", " ">> \o Quote(c.column, qc) \o <<" ">>
         \o DefinitionOf(c.column) \o SchemaPositioning(c.column, qp) :
             qc \in BOOLEAN, qp \in BOOLEAN}

\* C26: a clause that already ends with a positioning clause naming the
\* expected position (compared case-insensitively) is skipped without a
\* change entry; a clause that ends with a different positioning clause is
\* rewritten so that it ends with exactly one positioning clause, the
\* expected one
C26_PositionedClauseSkippedOrRewritten ==
    FixReturned =>
        Bind(ClausesOfText(FixedOrOriginalSql), LAMBDA clauses :
            \A i \in DOMAIN AddedClauses :
                Bind(AddedClauses[i], LAMBDA c :
                    (OnModelTable /\ c.pos # "none" /\ c.column \in Range(SchemaOrder))
                    => IF NamesExpectedPosition(c)
                       THEN /\ EntriesFor(c.column) = {}
                            /\ ClauseText(c, migrationPlan.quoted) \in Range(clauses)
                       ELSE /\ fixOutcome.kind = "fixed"
                            /\ EntriesFor(c.column) # {}
                            /\ \E j \in DOMAIN clauses : clauses[j] \in RewrittenClauses(c)))

\* ------------------------------------------------------------------------
\* Claims about the extracted definition
\* ------------------------------------------------------------------------
\* the text has a comma outside parentheses and quotes
RECURSIVE TopLevelCommaFrom(_, _, _, _)
TopLevelCommaFrom(text, i, parenDepth, inQuotes) ==
    IF i > Len(text) THEN FALSE
    ELSE IF text[i] = "'" THEN TopLevelCommaFrom(text, i + 1, parenDepth, ~inQuotes)
    ELSE IF inQuotes THEN TopLevelCommaFrom(text, i + 1, parenDepth, inQuotes)
    ELSE IF text[i] = "(" THEN TopLevelCommaFrom(text, i + 1, parenDepth + 1, inQuotes)
    ELSE IF text[i] = ")" THEN TopLevelCommaFrom(text, i + 1, parenDepth - 1, inQuotes)
    ELSE IF text[i] = "," /\ parenDepth = 0 THEN TRUE
    ELSE TopLevelCommaFrom(text, i + 1, parenDepth, inQuotes)

HasTopLevelComma(text) == TopLevelCommaFrom(text, 1, 0, FALSE)

\* C27: the definition extracted for an ADD COLUMN clause ends at the next
\* top-level comma or at the statement terminator, so a clause of another
\* kind that follows the ADD COLUMN clause in the same statement (such as
\* DROP COLUMN) is not part of the extracted definition
C27_DefinitionEndsAtNextClause ==
    FixReturned =>
        \A i \in DOMAIN ExtractedClauses :
            /\ ~HasTopLevelComma(ExtractedClauses[i].definition)
            /\ ";" \notin Range(ExtractedClauses[i].definition)
            /\ "DROP" \notin Range(ExtractedClauses[i].definition)

\* ------------------------------------------------------------------------
\* Claims about the schema snapshot of a fixer run
\* ------------------------------------------------------------------------
\* the call has returned
FixRunDone == fixRun.pc = "done"

\* C28: the core transform of the fixer performs no I/O of its own: its
\* result is a function only of the SQL text and one schema analysis, so all
\* clauses of one run are decided against the same schema snapshot even if
\* the schema file changes while the run is in progress
C28_ResultIsFunctionOfOneSnapshot ==
    FixRunDone =>
        \E s \in SchemaFiles :
            fixOutcome = fixMigrationSqlBySplit(migrationSql, analyzeSchema(provider, s))

\* ------------------------------------------------------------------------
\* Claims about the connections of one DatabaseConnector
\* ------------------------------------------------------------------------
\* the call that has just been made
LastCall == connectorCalls'[Len(connectorCalls')].method

\* C30: for any sequence of awaited connect, testConnection, tableExists and
\* disconnect calls on one DatabaseConnector at most one underlying
\* connection is open at any time: a new connection is created only when the
\* connector holds none, disconnect ends the held connection and clears it,
\* and disconnect with no held connection does nothing
C30_AtMostOneConnectionOpen ==
    [][/\ Cardinality(connectors'[1].open) <= 1
       /\ connectors'[1].open = IF connectors'[1].connection = 0 THEN {}
                                ELSE {connectors'[1].connection}
       /\ connectors'[1].created > connectors[1].created
              => connectors[1].connection = 0
       /\ LastCall = "disconnect"
              => /\ connectors'[1].connection = 0
                 /\ connectors'[1].open = {}
                 /\ connectors[1].connection = 0 => connectors'[1] = connectors[1]]_vars

\* a connector that was connected, asked to connect again while connected,
\* disconnected twice and connected once more
C30_Witness ==
    /\ Len(connectorCalls) = MaxCalls
    /\ connectorCalls[1].method = "connect"
    /\ connectorCalls[2].method \in {"connect", "testConnection", "tableExists"}
    /\ connectorCalls[3].method = "disconnect"
    /\ connectorCalls[4].method = "disconnect"
    /\ connectors[1].created = 2
    /\ connectors[1].connection = 2

\* ------------------------------------------------------------------------
\* Claims about overlapping generateReorderSQL calls
\* ------------------------------------------------------------------------
AllCallsDone == \A i \in DOMAIN generator.calls : generator.calls[i].pc = "done"

\* C29: when two generateReorderSQL calls on the same ColumnReorderGenerator
\* overlap in time, each call connects and disconnects its own connector:
\* neither call disconnects the connector the other is still using, and no
\* connector remains connected after both calls have finished
C29_EachCallOwnsItsConnector ==
    /\ \A i \in DOMAIN generator.calls :
           generator.calls[i].pc \in {"connected", "queried"}
               => connectors[generator.calls[i].own].connection # 0
    /\ \A k \in DOMAIN connectorCalls :
           connectorCalls[k].method = "disconnect"
               => connectorCalls[k].connector = generator.calls[connectorCalls[k].call].own
    /\ AllCallsDone => \A c \in DOMAIN connectors : connectors[c].connection = 0

=============================================================================
